---- MODULE Spec2Model ----
(***************************************************************************)
(* Model of the indite example application: the OpenXR frame loop of       *)
(* run_session (crates/example/src/main.rs), the frame body of             *)
(* render_frame (crates/example/src/rendering.rs) and the swapchain /      *)
(* texture bridging of crates/indite/src/swapchain.rs.                     *)
(*                                                                         *)
(* The render thread is a sequential program; pc is its position.  Every   *)
(* call into the OpenXR runtime is an input: its result (Ok / Err, the     *)
(* polled event, should_render, the acquired image index) is drawn with \E.*)
(* A failed unwrap() panics: the thread stops in pc = "aborted".           *)
(***************************************************************************)
EXTENDS Integers, Sequences, FiniteSets, TLC

VARIABLES
    variant,            \* which frame body runs: main.rs inline or rendering.rs render_frame
    client,             \* who called create_swapchain: the example program (with or
                        \* without the history counters) or another caller
    pc,                 \* position of the render thread
    failed,             \* the call whose Err was unwrapped ("none" while no panic)
    ctrlc_request_exit, \* AtomicBool set by the ctrl-c handler thread
    session_running,    \* main.rs:277
    rtRunning,          \* the runtime's view: session begun and not ended
    handled,            \* the event taken by the last poll_event and the session calls made for it
    nPolled,            \* number of events delivered so far (bounded by MaxEvents)
    pending,            \* number of events waiting in the runtime's queue
    lastExit,           \* result of the request_exit call of this iteration
    xr_frame_state,     \* FrameState returned by frame_wait.wait() in this iteration
    frameLog,           \* runtime / GPU calls made in the current loop iteration, in order
    openFrames,         \* frame begin calls minus frame end calls
    frames,             \* number of frame_wait.wait() calls so far (bounded by MaxFrames)
    image_index,        \* index returned by acquire_image in this iteration
    imageAcquired,      \* an image is acquired and not yet released
    lastEnd,            \* arguments of the frame_stream.end call of this iteration
    views,              \* answer of locate_views in this iteration
    lockHeld,           \* a MutexGuard of the swapchain mutex is alive
    numImages,          \* length of the runtime's enumerate_images() answer
    xrImages,           \* the image handles of that answer, in the runtime's order
    imageState,         \* per image handle: allocated, or who deallocated it
    swapchain_textures, \* Vec<(Texture, TextureView)>: state of each wrapped texture
    strongCount,        \* Arc strong count of the SwapchainHandle
    callerHandle,       \* the handle returned by create_swapchain is still owned by the caller
    swapchainDestroyed, \* the openxr::Swapchain was dropped (xrDestroySwapchain)
    sessionDropped,     \* the session objects were dropped (main.rs:455)
    nShouldRender,      \* frames whose frame state had should_render set
    nSubmits,           \* calls of queue.submit (main.rs:396 / rendering.rs:213)
    nFrameEnds,         \* successful calls of frame_stream.end
    command_buffer,     \* the command buffer recorded in this iteration: its target image
    submitted,          \* the command buffer handed to queue.submit in this iteration
    orientation,        \* pose.orientation handed to openxr_pose_to_glam: <<x, y, z, w>>
    rotation,           \* the rotation openxr_pose_to_glam returned
    setupLog,           \* calls and prints made by main before the swapchain is created
    reqs,               \* answer of graphics_requirements, while the local `reqs` is in scope
    xr_view_configs,    \* answer of enumerate_view_configuration_views (main.rs:201)
    swapchain_desc,     \* indite::SwapchainDescriptor passed to create_swapchain
    owners,             \* the owning values not yet dropped: locals of main and run_session
    strong,             \* strong counts of the shared objects behind those values
    destroyed           \* destructions of the objects behind the handles, in the order they happen

vars == <<variant, client, pc, failed, ctrlc_request_exit, session_running, rtRunning,
          handled, nPolled, pending, lastExit, xr_frame_state, frameLog, openFrames, frames,
          image_index, imageAcquired, lastEnd, views, lockHeld, numImages, xrImages,
          imageState,
          swapchain_textures,
          strongCount, callerHandle, swapchainDestroyed, sessionDropped,
          nShouldRender, nSubmits, nFrameEnds, command_buffer, submitted, orientation, rotation,
          setupLog, reqs, xr_view_configs, swapchain_desc, owners, strong, destroyed>>

loopVars == <<session_running, rtRunning, handled, nPolled, pending, lastExit>>
countVars == <<nShouldRender, nSubmits, nFrameEnds>>
frameVars == <<xr_frame_state, frameLog, openFrames, frames, image_index, imageAcquired, lastEnd,
               views, countVars>>
cmdVars == <<command_buffer, submitted>>
poseVars == <<orientation, rotation>>
setupVars == <<setupLog, reqs, xr_view_configs, swapchain_desc>>
ownVars == <<owners, strong, destroyed>>
swapVars == <<numImages, xrImages, imageState, swapchain_textures, strongCount, callerHandle, swapchainDestroyed>>

----------------------------------------------------------------------------
(* Bounds *)

MaxImages == 3
MaxFrames == 2
MaxEvents == 2
MaxVersionPart == 2
MaxExtent == 2
MaxPose == 2
MaxQ == 1

----------------------------------------------------------------------------
(* Values *)

SessionStates == {"UNKNOWN", "IDLE", "READY", "SYNCHRONIZED", "VISIBLE", "FOCUSED",
                  "STOPPING", "LOSS_PENDING", "EXITING"}

Events == [type : {"SessionStateChanged"}, state : SessionStates]
          \cup [type : {"InstanceLossPending", "EventsLost", "Other"}, state : {"-"}]

NoEvent == [type |-> "None", state |-> "-"]
NoFrame == [should_render |-> FALSE, predicted_display_time |-> 0]
NoEnd == [predicted_display_time |-> 0, layers |-> 0, views |-> <<>>]

Variants == {"inline", "render_frame"}

\* openxr::Version: major, minor, patch
Versions == [major : 0..MaxVersionPart, minor : 0..MaxVersionPart, patch : 0..MaxVersionPart]

Version(ma, mi, pa) == [major |-> ma, minor |-> mi, patch |-> pa]

\* Ord of openxr::Version: the packed u64 major << 48 | minor << 32 | patch, which orders
\* versions by major, then minor, then patch
VersionLess(a, b) ==
    \/ a.major < b.major
    \/ a.major = b.major /\ a.minor < b.minor
    \/ a.major = b.major /\ a.minor = b.minor /\ a.patch < b.patch

NoReqs == [min_api_version_supported |-> Version(0, 0, 0),
           max_api_version_supported |-> Version(0, 0, 0),
           valid |-> FALSE]

\* what a runtime can answer: a minimum that is not above the maximum
Requirements ==
    {r \in [min_api_version_supported : Versions, max_api_version_supported : Versions,
            valid : {TRUE}] :
        ~VersionLess(r.max_api_version_supported, r.min_api_version_supported)}

\* recommended_image_rect_width / _height of a view configuration view
ViewConfigs == [width : 1..MaxExtent, height : 1..MaxExtent]

\* what locate_views can answer for PRIMARY_STEREO: one openxr::View per eye, each eye
\* with its own field of view and a pose that changes from frame to frame
LocatedViews ==
    {<<[pose |-> a, fov |-> "left"], [pose |-> b, fov |-> "right"]>> :
        a \in 1..MaxPose, b \in 1..MaxPose}

\* no command buffer: image handles start at 1
NoCommand == [target |-> 0]

NoDesc == [width |-> 0, height |-> 0, view_count |-> 0]

\* main.rs:25
VIEW_COUNT == 2

----------------------------------------------------------------------------
(* Step order of the loop body.  The render thread executes the statements *)
(* of one iteration in program order; each list is that order.             *)

\* the frame body with the queue.submit call left out
InlineFrameNoSubmit ==
    <<"frame_wait", "frame_begin", "acquire_image", "read_actions", "locate_views",
      "upload", "record", "lock", "wait_image", "release_image", "frame_end">>

\* main.rs:335-437, the frame body written inline in run_session
InlineFrame ==
    <<"frame_wait", "frame_begin", "acquire_image", "read_actions", "locate_views",
      "upload", "record", "lock", "wait_image", "submit", "release_image", "frame_end">>

\* render_frame with the queue submission moved before wait_image
RenderFrameSubmitEarly ==
    <<"frame_wait", "frame_begin", "acquire_image", "create_uniform", "record",
      "read_actions", "locate_views", "upload", "lock", "submit", "wait_image",
      "release_image", "frame_end">>

\* rendering.rs:143-224, render_frame
RenderFrame ==
    <<"frame_wait", "frame_begin", "acquire_image", "create_uniform", "record",
      "read_actions", "locate_views", "upload", "lock", "wait_image", "submit",
      "release_image", "frame_end">>

\* the inline frame body with the command buffer recorded after the queue submission
FrameStepsRecordLate(v) ==
    IF v = "inline"
    THEN <<"frame_wait", "frame_begin", "acquire_image", "read_actions", "locate_views",
           "upload", "lock", "wait_image", "submit", "record", "release_image", "frame_end">>
    ELSE RenderFrame

FrameSteps(v) == IF v = "inline" THEN InlineFrame ELSE RenderFrame

\* the teardown with the session objects dropped before the textures are destroyed
TeardownSessionFirst ==
    <<"drop_session", "destroy_textures", "poll_all", "return",
      "drop_debug_utils", "drop_xr_instance", "device_destroy", "drop_wgpu">>

\* main.rs:440-466, the statements after 'main_loop, and main.rs:123-134, the statements
\* of main after run_session
TeardownSteps ==
    <<"destroy_textures", "poll_all", "drop_session", "return",
      "drop_debug_utils", "drop_xr_instance", "device_destroy", "drop_wgpu">>

IndexOf(seq, x) == CHOOSE i \in 1..Len(seq) : seq[i] = x

\* the statement executed after statement p of the list; `last` after the final one
After(seq, p, last) ==
    IF IndexOf(seq, p) = Len(seq) THEN last ELSE seq[IndexOf(seq, p) + 1]

\* the flag looked at after every statement of the frame body
NextInFrameInterruptible(p) ==
    IF ctrlc_request_exit THEN TeardownSteps[1] ELSE After(FrameSteps(variant), p, "check_ctrlc")

\* end of the loop body / `continue`: back to the top of 'main_loop
NextInFrame(p) == After(FrameSteps(variant), p, "check_ctrlc")

\* the wgpu clean-up of main.rs:133-134 made before the session objects are dropped
NextInTeardownWgpuFirst(p) ==
    After(<<"destroy_textures", "poll_all", "device_destroy", "drop_wgpu", "drop_session",
            "return", "drop_debug_utils", "drop_xr_instance">>, p, "done")

\* the statement after statement p of the shutdown; after the last one main returns
NextInTeardown(p) == After(TeardownSteps, p, "done")

\* `if let Some(event)`: one event an iteration
AfterEventIfLet == "running_check"

\* main.rs:294: `while let Some(event) = poll_event(..)`: the body over, poll again
AfterEvent == "poll"

\* `break` / `break 'main_loop`: control leaves the loop for the first teardown statement
LoopExit == TeardownSteps[1]

\* the branch on should_render left out
SkipRenderingNever(fs) == FALSE

\* main.rs:340 / rendering.rs:148, `if !xr_frame_state.should_render`
SkipRendering(fs) == ~fs.should_render

SetupPcs == {"create_swapchain", "enumerate_images", "wrap_images", "textures_done"}
FramePcs == {"frame_wait", "frame_begin", "end_empty", "acquire_image", "create_uniform",
             "record", "read_actions", "locate_views", "upload", "lock", "wait_image",
             "submit", "release_image", "frame_end"}
TeardownPcs == {TeardownSteps[i] : i \in 1..Len(TeardownSteps)}
LoopPcs == {"check_ctrlc", "poll", "running_check"} \cup FramePcs

----------------------------------------------------------------------------
(* Shared helpers *)

\* the program is the example (main.rs), not another caller of the library
IsExample == client \in {"example", "example_uncounted"}

\* The numbers of frames, events, submissions and frame ends are history the program
\* does not keep. They are counted, and bounded, where properties speak of them, and left
\* at zero where the loop is followed through any number of iterations.
Counting == client # "example_uncounted"

Inc(n) == IF Counting THEN n + 1 ELSE n

\* an Err that is recorded while the thread stays where it is and calls again
PanicRetry(call) ==
    /\ pc' = pc
    /\ failed' = call
    /\ lockHeld' = lockHeld

\* Result::unwrap() on Err: the thread panics; unwinding drops a live MutexGuard
Panic(call) ==
    /\ pc' = "aborted"
    /\ failed' = call
    /\ lockHeld' = FALSE

Log(call) == frameLog' = Append(frameLog, call)

----------------------------------------------------------------------------
(* Ownership. openxr::Entry, openxr::Instance, the session handles and the    *)
(* wgpu Instance and Device are reference-counted handles: clone() adds a     *)
(* strong reference, drop gives one up, and the last drop destroys the object *)
(* behind the handle and then drops what that object owns.                    *)

Objects == {"xr_entry", "xr_instance", "xr_session", "instance", "device"}

NoStrong == [o \in Objects |-> 0]

\* the reference counts and the destructions so far, as one value
Res == [strong |-> strong, destroyed |-> destroyed]

Becomes(r) == strong' = r.strong /\ destroyed' = r.destroyed

Clone(r, o) == [r EXCEPT !.strong[o] = @ + 1]

Dec(r, o) == [r EXCEPT !.strong[o] = @ - 1]

Destroy(r, what) == [r EXCEPT !.destroyed = Append(@, what)]

\* drop of an openxr::Entry
ReleaseEntry(r) ==
    LET q == Dec(r, "xr_entry")
    IN  IF q.strong.xr_entry = 0 THEN Destroy(q, "xr_entry") ELSE q

\* drop of an openxr::Instance: the last one calls xrDestroyInstance, then gives up the
\* Entry the instance was created from
ReleaseXrInstance(r) ==
    LET q == Dec(r, "xr_instance")
    IN  IF q.strong.xr_instance = 0 THEN ReleaseEntry(Destroy(q, "xr_instance")) ELSE q

\* drop of a wgpu::Instance made by from_raw with no drop callback (context.rs:43-54):
\* wgpu owns the VkInstance and destroys it with the last reference
ReleaseWgpuInstance(r) ==
    LET q == Dec(r, "instance")
    IN  IF q.strong.instance = 0 THEN Destroy(q, "vk_instance") ELSE q

\* drop of a wgpu::Device made by device_from_raw with no drop callback (context.rs:
\* 155-163): wgpu owns the VkDevice and destroys it with the last reference; the device
\* keeps the instance whose adapter opened it (context.rs:130-131, 167, 182)
ReleaseDevice(r) ==
    LET q == Dec(r, "device")
    IN  IF q.strong.device = 0 THEN ReleaseWgpuInstance(Destroy(q, "vk_device")) ELSE q

\* a session created with nothing to keep alive
GuardEmpty == {}

\* lib.rs:49: let guard = Box::new((instance.clone(), device.clone()))
Guard == {"instance", "device"}

\* lib.rs:51-53 create_session_with_guard: the guard is dropped once the session has been
\* destroyed; its tuple drops the instance clone, then the device clone
DropGuard(r) ==
    LET a == IF "instance" \in Guard THEN ReleaseWgpuInstance(r) ELSE r
    IN  IF "device" \in Guard THEN ReleaseDevice(a) ELSE a

\* drop of a Session, FrameWaiter, FrameStream or Swapchain: the last reference to the
\* session calls xrDestroySession, gives up its Instance and drops the guard
ReleaseSession(r) ==
    LET q == Dec(r, "xr_session")
    IN  IF q.strong.xr_session = 0
        THEN DropGuard(ReleaseXrInstance(Destroy(q, "xr_session")))
        ELSE q

\* a DebugUtils that borrows the entry and the instance it was given
DebugUtilsKeepsNothing == {}

\* debug_utils.rs:15-16 and 50-51: _xr_entry: xr_entry.clone(), _xr_instance: xr_instance.clone()
DebugUtilsKeeps == {"xr_entry", "xr_instance"}

\* debug_utils.rs:49-56: the value returned by DebugUtils::new
DebugUtilsMade(r) ==
    [strong |-> [o \in Objects |->
                    IF o \in DebugUtilsKeeps THEN r.strong[o] + 1 ELSE r.strong[o]],
     destroyed |-> r.destroyed]

\* debug_utils.rs:59-65: Drop destroys the messenger; the fields are dropped after the
\* body of drop, in the order of their declaration
DropDebugUtils(r) ==
    LET a == Destroy(r, "messenger")
        b == IF "xr_entry" \in DebugUtilsKeeps THEN ReleaseEntry(a) ELSE a
    IN  IF "xr_instance" \in DebugUtilsKeeps THEN ReleaseXrInstance(b) ELSE b

SessionHandles == {"session", "frame_wait", "frame_stream"}

\* lib.rs:48-53: the session, the frame waiter and the frame stream share one session,
\* which keeps the XR instance and owns the guard with its clones
SessionCreated(r) ==
    [strong |-> [o \in Objects |->
                    CASE o = "xr_session" -> 3
                      [] o = "xr_instance" -> r.strong[o] + 1
                      [] o \in Guard -> r.strong[o] + 1
                      [] OTHER -> r.strong[o]],
     destroyed |-> r.destroyed]

\* main.rs:28: let xr_entry = openxr::Entry::linked()
AtStart == [strong |-> [NoStrong EXCEPT !.xr_entry = 1], destroyed |-> <<>>]

\* the counts once main.rs:53-105 and create_session have returned Ok, with or without a
\* DebugUtils value
Constructed(debug) ==
    LET a == Clone(Clone(AtStart, "xr_instance"), "xr_entry")
        b == IF debug THEN DebugUtilsMade(a) ELSE a
    IN  SessionCreated(Clone(Clone(Clone(b, "instance"), "device"), "instance"))

ConstructedOwners(debug) ==
    {"xr_entry", "xr_instance", "instance", "device"} \cup SessionHandles
        \cup (IF debug THEN {"debug_utils"} ELSE {})

\* drop of one owning value
DropOwner(o, r) ==
    CASE o = "xr_entry" -> ReleaseEntry(r)
      [] o = "xr_instance" -> ReleaseXrInstance(r)
      [] o = "debug_utils" -> DropDebugUtils(r)
      [] o \in SessionHandles -> ReleaseSession(r)
      [] o = "instance" -> ReleaseWgpuInstance(r)
      [] o = "device" -> ReleaseDevice(r)

\* drop((a, b, ..)): the fields of the tuple are dropped in order; a value that was never
\* made (debug_utils = None) drops nothing
RECURSIVE DropAll(_, _)
DropAll(os, r) ==
    IF os = <<>> THEN r
    ELSE DropAll(Tail(os), IF Head(os) \in owners THEN DropOwner(Head(os), r) ELSE r)

Drops(os) ==
    /\ Becomes(DropAll(os, Res))
    /\ owners' = owners \ {os[i] : i \in 1..Len(os)}

\* a handle that owns the swapchain outright: the first drop destroys it
DropArcOwning ==
    /\ strongCount' = strongCount - 1
    /\ swapchainDestroyed' = TRUE
    /\ imageState' = [h \in DOMAIN imageState |-> "freed_by_runtime"]
    /\ Becomes(IF swapchainDestroyed THEN Res ELSE ReleaseSession(Res))

\* Drop of one Arc<Mutex<openxr::Swapchain>>: the last one drops the openxr::Swapchain,
\* whose Drop destroys the runtime swapchain and with it the images still allocated, and
\* gives up the swapchain's reference to the session
DropArc ==
    /\ strongCount' = strongCount - 1
    /\ swapchainDestroyed' = (swapchainDestroyed \/ strongCount - 1 = 0)
    /\ imageState' = [h \in DOMAIN imageState |->
                         IF strongCount - 1 = 0 /\ imageState[h] = "allocated"
                         THEN "freed_by_runtime" ELSE imageState[h]]
    /\ Becomes(IF strongCount - 1 = 0 THEN ReleaseSession(Res) ELSE Res)

AllDestroyed ==
    \A i \in 1..Len(swapchain_textures) : swapchain_textures[i].state = "destroyed"

Alive == {i \in 1..Len(swapchain_textures) : swapchain_textures[i].state = "alive"}

----------------------------------------------------------------------------
(* openxr_pose_to_glam, math.rs:10-33 and main.rs:605-628.                   *)
(* An f32 is a small integer, a NaN, or a finite value so large that its     *)
(* square overflows to infinity; an f32 result may also be the infinity.     *)
(* A rotation is kept as num / sqrt(den2): its components are the            *)
(* components of num divided by the square root of den2.                     *)

Finite(n) == [kind |-> "finite", v |-> n]
NaN == [kind |-> "nan", v |-> 0]
Huge == [kind |-> "huge", v |-> 0]
Infinity == [kind |-> "inf", v |-> 0]

Floats == {Finite(n) : n \in (-MaxQ)..MaxQ} \cup {NaN, Huge}

\* openxr::Quaternionf: x, y, z, w
Orientations == [1..4 -> Floats]

NoOrientation == [i \in 1..4 |-> Finite(0)]
NoRotation == [num |-> NoOrientation, den2 |-> 0]

\* glam Quat::IDENTITY: (0, 0, 0, 1)
IDENTITY == [i \in 1..4 |-> Finite(IF i = 4 THEN 1 ELSE 0)]

\* glam Quat::length_squared: x*x + y*y + z*z + w*w in f32; a NaN term makes the sum
\* NaN, an overflowing square makes it infinite
LengthSquared(q) ==
    IF \E i \in 1..4 : q[i] = NaN THEN NaN
    ELSE IF \E i \in 1..4 : q[i] = Huge THEN Infinity
    ELSE Finite(q[1].v * q[1].v + q[2].v * q[2].v + q[3].v * q[3].v + q[4].v * q[4].v)

\* `quat.length() == 0.0`: the square root of the squared length is zero only for zero;
\* NaN == 0.0 is false
LengthIsZero(q) == LengthSquared(q) = Finite(0)

\* glam Quat::is_normalized: abs(length_squared() - 1.0) <= 2e-4, false for NaN and for
\* the infinity
IsNormalized(q) == LengthSquared(q) = Finite(1)

\* glam Quat::normalize: self * (1.0 / length). A NaN length gives NaN components, an
\* infinite length the factor 0.0 and zero components, a zero length the factor infinity
\* and 0.0 * inf = NaN
Normalize(q) ==
    LET l2 == LengthSquared(q)
    IN  IF l2 = NaN \/ l2 = Finite(0) THEN [num |-> [i \in 1..4 |-> NaN], den2 |-> 1]
        ELSE IF l2 = Infinity THEN [num |-> [i \in 1..4 |-> Finite(0)], den2 |-> 1]
        ELSE [num |-> q, den2 |-> l2.v]

\* the conversion without the test for a zero length
OpenxrPoseToGlamUnchecked(q) ==
    IF ~IsNormalized(q) THEN Normalize(q) ELSE [num |-> q, den2 |-> 1]

\* math.rs:11-27 / main.rs:606-622: the rotation of openxr_pose_to_glam
OpenxrPoseToGlam(q) ==
    LET quat == IF LengthIsZero(q) THEN IDENTITY ELSE q
    IN  IF ~IsNormalized(quat) THEN Normalize(quat) ELSE [num |-> quat, den2 |-> 1]

\* math.rs:4 / main.rs:572: a call of openxr_pose_to_glam
ConvertPose ==
    /\ pc = "pose_input"
    /\ rotation' = OpenxrPoseToGlam(orientation)
    /\ pc' = "pose_done"
    /\ UNCHANGED <<variant, client, ownVars, cmdVars, orientation, setupVars, failed, ctrlc_request_exit,
                   loopVars, frameVars, lockHeld, swapVars, sessionDropped>>

----------------------------------------------------------------------------
(* Startup: main (main.rs:27-121), RenderContext::new (rendering.rs:30-32),  *)
(* indite::create_instance (context.rs:11-60), session setup (main.rs:197-   *)
(* 215, session.rs:27-50)                                                    *)

\* main.rs: main checks the version itself before it calls indite::create_instance
StartupInline ==
    <<"enumerate_extensions", "xr_create_instance", "debug_utils_new",
      "main_graphics_requirements",
      "main_version_check", "graphics_requirements", "version_check", "create_vk_instance",
      "create_device", "create_session", "enumerate_views">>

\* rendering.rs:30-32: RenderContext::new calls indite::create_instance directly
StartupRenderContext ==
    <<"enumerate_extensions", "xr_create_instance", "debug_utils_new",
      "graphics_requirements", "version_check", "create_vk_instance", "create_device", "create_session", "enumerate_views">>

StartupSteps(v) == IF v = "inline" THEN StartupInline ELSE StartupRenderContext

StartupPcs == {StartupInline[i] : i \in 1..Len(StartupInline)}

\* main.rs:192: ctrlc::set_handler runs first thing in run_session, after create_device
BeforeHandlerPcs == StartupPcs \ {"create_session", "enumerate_views"}

NextInStartup(p) == After(StartupSteps(variant), p, "create_swapchain")

\* main.rs:88 and context.rs:19: openxr::Version::new(1, 1, 0) / new(1, 2, 0)
TargetVersion(p) == IF p = "main_version_check" THEN Version(1, 1, 0) ELSE Version(1, 2, 0)

\* the check with both ends compared by their major number only
VersionCheckFailsMajors(target, r) ==
    \/ target.major < r.min_api_version_supported.major
    \/ target.major > r.max_api_version_supported.major

\* main.rs:94-95 and context.rs:26-27
VersionCheckFails(target, r) ==
    \/ VersionLess(target, r.min_api_version_supported)
    \/ target.major > r.max_api_version_supported.major

\* main.rs:40-43 without the `return`
OnMissingExtensionContinue == "xr_create_instance"

\* main.rs:40-43: println!, return
OnMissingExtension == "exited"

SetupLog(call) == setupLog' = Append(setupLog, call)

\* main.rs:35-43: enumerate_extensions().unwrap(), the khr_vulkan_enable2 test
EnumerateExtensions ==
    /\ pc = "enumerate_extensions"
    /\ \E ok \in BOOLEAN, khr_vulkan_enable2 \in BOOLEAN :
        IF ~ok
        THEN Panic("enumerate_extensions") /\ UNCHANGED setupLog
        ELSE /\ IF khr_vulkan_enable2
                THEN /\ SetupLog("enumerate_extensions")
                     /\ pc' = NextInStartup(pc)
                ELSE /\ setupLog' = setupLog \o <<"enumerate_extensions", "print_not_available">>
                     /\ pc' = OnMissingExtension
             /\ UNCHANGED <<failed, lockHeld>>
    /\ UNCHANGED <<variant, client, ownVars, cmdVars, poseVars, ctrlc_request_exit, loopVars, frameVars, swapVars,
                   sessionDropped, reqs, xr_view_configs, swapchain_desc>>

\* a startup call that is unwrapped: its Ok hands main the owning values `made`, with the
\* reference counts r
StartupCreate(p, made, r) ==
    /\ \E ok \in BOOLEAN :
        IF ok
        THEN /\ SetupLog(p)
             /\ pc' = NextInStartup(p)
             /\ owners' = owners \cup made
             /\ Becomes(r)
             /\ UNCHANGED <<failed, lockHeld>>
        ELSE /\ Panic(p)
             /\ UNCHANGED <<setupLog, ownVars>>
    /\ UNCHANGED <<variant, client, cmdVars, poseVars, ctrlc_request_exit, loopVars, frameVars, swapVars,
                   sessionDropped, xr_view_configs, swapchain_desc>>

\* main.rs:53-65: xr_entry.create_instance(..).unwrap(); the instance keeps its entry
XrCreateInstance ==
    /\ pc = "xr_create_instance"
    /\ StartupCreate("xr_create_instance", {"xr_instance"},
                     Clone(Clone(Res, "xr_instance"), "xr_entry"))
    /\ UNCHANGED reqs

\* main.rs:72 and debug_utils.rs:23-57: DebugUtils::new is None when the extension's
\* functions cannot be loaded; otherwise it creates the messenger and clones the entry and
\* the instance into the value it returns
DebugUtilsNew ==
    /\ pc = "debug_utils_new"
    /\ \E loaded \in BOOLEAN :
        IF loaded
        THEN /\ owners' = owners \cup {"debug_utils"}
             /\ Becomes(DebugUtilsMade(Res))
        ELSE UNCHANGED ownVars
    /\ pc' = NextInStartup(pc)
    /\ UNCHANGED <<variant, client, cmdVars, poseVars, setupVars, failed, ctrlc_request_exit, loopVars, frameVars,
                   lockHeld, swapVars, sessionDropped>>

\* main.rs:90-92 and context.rs:24: graphics_requirements::<Vulkan>(xr_system)
QueryRequirements(p) ==
    /\ \E ok \in BOOLEAN :
        IF ok
        THEN /\ \E r \in Requirements : reqs' = r
             /\ SetupLog("graphics_requirements")
             /\ pc' = NextInStartup(p)
             /\ UNCHANGED <<failed, lockHeld>>
        ELSE /\ Panic(p)
             /\ UNCHANGED <<setupLog, reqs>>
    /\ UNCHANGED <<variant, client, ownVars, cmdVars, poseVars, ctrlc_request_exit, loopVars, frameVars, swapVars,
                   sessionDropped, xr_view_configs, swapchain_desc>>

\* main.rs:94-102 (panic!) and context.rs:26-34 (bail!, unwrapped by the caller)
CheckVersion(p) ==
    /\ IF VersionCheckFails(TargetVersion(p), reqs)
       THEN Panic(p) /\ UNCHANGED setupLog
       ELSE /\ SetupLog(p)
            /\ pc' = NextInStartup(p)
            /\ UNCHANGED <<failed, lockHeld>>
    /\ UNCHANGED reqs
    /\ UNCHANGED <<variant, client, ownVars, cmdVars, poseVars, ctrlc_request_exit, loopVars, frameVars, swapVars,
                   sessionDropped, xr_view_configs, swapchain_desc>>

\* main.rs:90-92
MainGraphicsRequirements ==
    /\ pc = "main_graphics_requirements"
    /\ QueryRequirements("main_graphics_requirements")

\* main.rs:94-102
MainVersionCheck ==
    /\ pc = "main_version_check"
    /\ CheckVersion("main_version_check")

\* context.rs:24
GraphicsRequirements ==
    /\ pc = "graphics_requirements"
    /\ QueryRequirements("graphics_requirements")

\* context.rs:26-34
VersionCheck ==
    /\ pc = "version_check"
    /\ CheckVersion("version_check")

\* context.rs:36-57: ash::Entry::load, create_vk_instance, Instance::from_hal; `reqs` is
\* not read after the check and goes out of scope with create_instance
CreateVkInstance ==
    /\ pc = "create_vk_instance"
    /\ StartupCreate("create_vk_instance", {"instance"}, Clone(Res, "instance"))
    /\ reqs' = NoReqs

\* main.rs:105 / rendering.rs:32: indite::create_device (context.rs:113-185)
CreateDevice ==
    /\ pc = "create_device"
    /\ StartupCreate("create_device", {"device"}, Clone(Clone(Res, "device"), "instance"))
    /\ UNCHANGED reqs

\* main.rs:197-198 / session.rs:27-33: indite::create_session (lib.rs:15-56)
CreateSession ==
    /\ pc = "create_session"
    /\ StartupCreate("create_session", SessionHandles, SessionCreated(Res))
    /\ UNCHANGED reqs

\* the two views taken as they come
ViewsEqualUnchecked(cfgs) == TRUE

\* main.rs:208 / session.rs:42: assert_eq!(xr_views[0], xr_views[1])
ViewsEqual(cfgs) == cfgs[1] = cfgs[2]

\* main.rs:201-215 / session.rs:36-50: the view configurations, the two assert_eq!,
\* the swapchain descriptor
EnumerateViews ==
    /\ pc = "enumerate_views"
    /\ \E ok \in BOOLEAN, n \in 1..(VIEW_COUNT + 1) :
       \E cfgs \in [1..n -> ViewConfigs] :
        IF ~ok
        THEN /\ Panic("enumerate_views")
             /\ UNCHANGED <<setupLog, xr_view_configs, swapchain_desc>>
        ELSE /\ xr_view_configs' = cfgs
             /\ IF Len(cfgs) # VIEW_COUNT
                THEN Panic("assert_view_count") /\ UNCHANGED <<setupLog, swapchain_desc>>
                ELSE IF ~ViewsEqual(cfgs)
                THEN Panic("assert_views_equal") /\ UNCHANGED <<setupLog, swapchain_desc>>
                ELSE /\ swapchain_desc' = [width |-> cfgs[1].width,
                                           height |-> cfgs[1].height,
                                           view_count |-> VIEW_COUNT]
                     /\ SetupLog("enumerate_views")
                     /\ pc' = NextInStartup(pc)
                     /\ UNCHANGED <<failed, lockHeld>>
    /\ UNCHANGED <<variant, client, ownVars, cmdVars, poseVars, ctrlc_request_exit, loopVars, frameVars, swapVars,
                   sessionDropped, reqs>>

----------------------------------------------------------------------------
(* indite::create_swapchain, swapchain.rs:23-153 *)

\* swapchain.rs:44-45: xr_session.create_swapchain(..)?, Arc::new(Mutex::new(..)); the
\* openxr::Swapchain keeps a reference to its session
CreateXrSwapchain ==
    /\ pc = "create_swapchain"
    /\ \E ok \in BOOLEAN :
        IF ok
        THEN /\ pc' = "enumerate_images"
             /\ strongCount' = 1
             /\ callerHandle' = TRUE
             /\ Becomes(Clone(Res, "xr_session"))
             /\ UNCHANGED <<failed, lockHeld>>
        ELSE \* `?` returns the Err; the example unwraps it (session.rs:52)
             /\ Panic("create_swapchain")
             /\ UNCHANGED <<strongCount, callerHandle, strong, destroyed>>
    /\ UNCHANGED <<variant, client, owners, cmdVars, poseVars, setupVars, ctrlc_request_exit, loopVars, frameVars,
                   numImages, xrImages, imageState, swapchain_textures, swapchainDestroyed,
                   sessionDropped>>

\* what enumerate_images can answer: between one and MaxImages distinct handles, here
\* in ascending or in descending order of the handle value
ImageLists ==
    {[k \in 1..n |-> k] : n \in 1..MaxImages} \cup
    {[k \in 1..n |-> n + 1 - k] : n \in 1..MaxImages}

ImageHandles(imgs) == {imgs[k] : k \in 1..Len(imgs)}

\* swapchain.rs:63-67: lock the handle, enumerate_images().unwrap()
EnumerateImages ==
    /\ pc = "enumerate_images"
    /\ \E ok \in BOOLEAN :
        IF ok
        THEN /\ \E imgs \in ImageLists :
                  /\ xrImages' = imgs
                  /\ numImages' = Len(imgs)
                  /\ imageState' = [h \in ImageHandles(imgs) |-> "allocated"]
             /\ lockHeld' = TRUE
             /\ pc' = "wrap_images"
             /\ UNCHANGED failed
        ELSE /\ Panic("enumerate_images")
             /\ UNCHANGED <<numImages, xrImages, imageState>>
    /\ UNCHANGED <<variant, client, ownVars, cmdVars, poseVars, setupVars, ctrlc_request_exit, loopVars, frameVars,
                   swapchain_textures, strongCount, callerHandle, swapchainDestroyed,
                   sessionDropped>>

\* texture_from_raw called with None for the drop callback
DropCallbackNone == FALSE

\* swapchain.rs:122-135: texture_from_raw(color_image, &desc, Some(Box::new(drop_callback)))
DropCallback == TRUE

\* a release hook that captures nothing
HookNoClone(count) == count

\* swapchain.rs:77 and 125-128: the release hook owns one clone of the handle
HookClone(count) == count + 1

\* swapchain.rs:69-88: one (texture, view) per enumerated image, in enumeration order;
\* create_swapchain_texture (97-153) moves a clone of the handle into drop_callback
WrapImage ==
    /\ pc = "wrap_images"
    /\ Len(swapchain_textures) < numImages
    /\ swapchain_textures' =
           Append(swapchain_textures,
                  [image |-> xrImages[Len(swapchain_textures) + 1],
                   drop_callback |-> DropCallback,
                   state |-> "alive"])
    /\ strongCount' = HookClone(strongCount)
    /\ pc' = IF Len(swapchain_textures) + 1 = numImages THEN "textures_done" ELSE pc
    /\ UNCHANGED <<variant, client, ownVars, cmdVars, poseVars, setupVars, failed, ctrlc_request_exit, loopVars, frameVars, lockHeld,
                   numImages, xrImages, imageState, callerHandle, swapchainDestroyed,
                   sessionDropped>>

\* swapchain.rs:90-91 and 47-49: the guard dropped at return, Ok((handle, textures))
ReturnSwapchain ==
    /\ pc = "textures_done"
    /\ lockHeld' = FALSE
    /\ pc' = IF IsExample THEN "check_ctrlc" ELSE "caller"
    /\ UNCHANGED <<variant, client, ownVars, cmdVars, poseVars, setupVars, failed, ctrlc_request_exit, loopVars, frameVars,
                   swapVars, sessionDropped>>

----------------------------------------------------------------------------
(* A caller of the library other than the example: it owns the returned    *)
(* handle and the textures and drops them in an order of its choosing.     *)

\* drop of the SwapchainHandle returned at swapchain.rs:49
CallerDropHandle ==
    /\ pc = "caller"
    /\ callerHandle
    /\ callerHandle' = FALSE
    /\ DropArc
    /\ UNCHANGED <<variant, client, owners, cmdVars, poseVars, setupVars, pc, failed, ctrlc_request_exit, loopVars, frameVars,
                   lockHeld, numImages, xrImages, swapchain_textures, sessionDropped>>

\* drop of one texture: wgpu runs drop_callback (swapchain.rs:125-128)
DropTexture(i) ==
    /\ swapchain_textures' = [swapchain_textures EXCEPT ![i].state = "destroyed"]
    /\ IF swapchain_textures[i].drop_callback
       THEN DropArc
       ELSE \* swapchain.rs:122-123: without the callback wgpu owns the image and frees it
            /\ imageState' = [imageState EXCEPT ![swapchain_textures[i].image] =
                                                    "freed_by_wgpu"]
            /\ UNCHANGED <<strongCount, swapchainDestroyed, strong, destroyed>>

CallerDropTexture ==
    /\ pc = "caller"
    /\ \E i \in Alive : DropTexture(i)
    /\ UNCHANGED <<variant, client, owners, cmdVars, poseVars, setupVars, pc, failed, ctrlc_request_exit, loopVars, frameVars,
                   lockHeld, numImages, xrImages, callerHandle, sessionDropped>>

----------------------------------------------------------------------------
(* The ctrl-c handler thread, main.rs:189-192 *)

CtrlC ==
    /\ IsExample
    /\ pc \notin BeforeHandlerPcs \cup {"exited", "done", "aborted"}
    /\ ~ctrlc_request_exit
    /\ ctrlc_request_exit' = TRUE
    /\ UNCHANGED <<variant, client, ownVars, cmdVars, poseVars, setupVars, pc, failed, loopVars, frameVars, lockHeld, swapVars,
                   sessionDropped>>

----------------------------------------------------------------------------
(* 'main_loop of run_session, main.rs:279-330 *)

\* the arm left out: the iteration goes on as after Ok
OnNotRunningContinue == "poll"

\* main.rs:289: `Err(openxr::sys::Result::ERROR_SESSION_NOT_RUNNING) => break`
OnNotRunning == LoopExit

\* the match with `Ok(()) => break`
AfterExitRequestBreak(res) ==
    CASE res = "ok" -> LoopExit
      [] res = "not_running" -> LoopExit
      [] OTHER -> "aborted"

\* main.rs:287-291: the match on the result of session.request_exit()
AfterExitRequest(res) ==
    CASE res = "ok" -> "poll"
      [] res = "not_running" -> OnNotRunning
      [] OTHER -> "aborted"

\* the flag taken with swap(false)
FlagAfterSwap(flag) == FALSE

\* main.rs:281: `ctrlc_request_exit.load(Ordering::Relaxed)` leaves the flag as it is
FlagAfterLoad(flag) == flag

\* main.rs:281-292.  The runtime answers request_exit with Ok while the session runs and
\* with ERROR_SESSION_NOT_RUNNING while it does not; any call may fail with another error.
CheckCtrlC ==
    /\ pc = "check_ctrlc"
    /\ xr_frame_state' = NoFrame
    /\ frameLog' = <<>>
    /\ image_index' = -1
    /\ lastEnd' = NoEnd
    /\ views' = <<>>
    /\ command_buffer' = NoCommand
    /\ submitted' = NoCommand
    /\ \E arrived \in 0..(MaxEvents - nPolled - pending) : pending' = pending + arrived
    /\ IF ~ctrlc_request_exit
       THEN /\ pc' = "poll"
            /\ lastExit' = "none"
            /\ UNCHANGED <<failed, lockHeld>>
       ELSE \E res \in {IF rtRunning THEN "ok" ELSE "not_running", "error"} :
            /\ lastExit' = res
            /\ IF AfterExitRequest(res) = "aborted"
               THEN Panic("request_exit")
               ELSE pc' = AfterExitRequest(res) /\ UNCHANGED <<failed, lockHeld>>
    /\ ctrlc_request_exit' = FlagAfterLoad(ctrlc_request_exit)
    /\ UNCHANGED <<variant, client, ownVars, poseVars, setupVars, countVars, session_running,
                   rtRunning, handled, nPolled, openFrames, frames, imageAcquired, swapVars,
                   sessionDropped>>

\* the event match with STOPPING leaving the loop and FOCUSED starting the session
HandleEventOther(e, running) ==
    IF e.type = "SessionStateChanged"
    THEN CASE e.state = "READY" -> <<"begin", TRUE, "poll">>
           [] e.state = "FOCUSED" -> <<"none", TRUE, "poll">>
           [] e.state \in {"STOPPING", "EXITING", "LOSS_PENDING"} -> <<"none", running, LoopExit>>
           [] OTHER -> <<"none", running, "poll">>
    ELSE IF e.type = "InstanceLossPending"
    THEN <<"none", running, LoopExit>>
    ELSE <<"none", running, "poll">>

\* main.rs:296-323: what the loop does with one polled event.
\* The result is <<session call made, new session_running, next pc>>.
HandleEvent(e, running) ==
    IF e.type = "SessionStateChanged"
    THEN CASE e.state = "READY" -> <<"begin", TRUE, AfterEvent>>
           [] e.state = "STOPPING" -> <<"end", FALSE, AfterEvent>>
           [] e.state \in {"EXITING", "LOSS_PENDING"} -> <<"none", running, LoopExit>>
           [] OTHER -> <<"none", running, AfterEvent>>
    ELSE IF e.type = "InstanceLossPending"
    THEN <<"none", running, LoopExit>>
    ELSE <<"none", running, AfterEvent>>

\* main.rs:294: poll_event hands out the oldest waiting event and returned Some(event).  session.begin fails when the session is
\* already running and session.end fails when it is not.
PollSome ==
    /\ pc = "poll"
    /\ pending > 0
    /\ pending' = pending - 1
    /\ \E e \in Events, ok \in BOOLEAN :
        LET h == HandleEvent(e, session_running)
            callOk == CASE h[1] = "begin" -> ok /\ ~rtRunning
                        [] h[1] = "end" -> ok /\ rtRunning
                        [] OTHER -> TRUE
        IN  /\ handled' = [event |-> e, call |-> h[1]]
            /\ nPolled' = Inc(nPolled)
            /\ IF callOk
               THEN /\ session_running' = h[2]
                    /\ rtRunning' = CASE h[1] = "begin" -> TRUE
                                      [] h[1] = "end" -> FALSE
                                      [] OTHER -> rtRunning
                    /\ pc' = h[3]
                    /\ UNCHANGED <<failed, lockHeld>>
               ELSE /\ Panic(IF h[1] = "begin" THEN "session_begin" ELSE "session_end")
                    /\ UNCHANGED <<session_running, rtRunning>>
    /\ UNCHANGED <<variant, client, ownVars, cmdVars, poseVars, setupVars, ctrlc_request_exit, lastExit, frameVars, swapVars,
                   sessionDropped>>

\* main.rs:294: poll_event returned None, which it does when no event is waiting, or failed
PollNone ==
    /\ pc = "poll"
    /\ \E ok \in BOOLEAN :
        IF ok
        THEN pending = 0 /\ pc' = "running_check" /\ UNCHANGED <<failed, lockHeld>>
        ELSE Panic("poll_event")
    /\ UNCHANGED <<variant, client, ownVars, cmdVars, poseVars, setupVars, ctrlc_request_exit, loopVars, frameVars, swapVars,
                   sessionDropped>>

\* the loop without the `if !session_running` test
RunningCheckNoSkip ==
    /\ pc = "running_check"
    /\ pc' = FrameSteps(variant)[1]
    /\ UNCHANGED <<variant, client, ownVars, cmdVars, poseVars, setupVars, failed, ctrlc_request_exit, loopVars, frameVars, lockHeld,
                   swapVars, sessionDropped>>

\* main.rs:326-330: sleep and `continue` while the session is not running
RunningCheck ==
    /\ pc = "running_check"
    /\ pc' = IF ~session_running THEN "check_ctrlc" ELSE FrameSteps(variant)[1]
    /\ UNCHANGED <<variant, client, ownVars, cmdVars, poseVars, setupVars, failed, ctrlc_request_exit, loopVars, frameVars, lockHeld,
                   swapVars, sessionDropped>>

----------------------------------------------------------------------------
(* One frame: main.rs:335-437 and render_frame, rendering.rs:143-224 *)

\* a statement of the frame body that calls neither the runtime nor the mutex
LocalStep(p) ==
    /\ Log(p)
    /\ pc' = NextInFrame(p)
    /\ UNCHANGED <<variant, client, ownVars, cmdVars, poseVars, setupVars, countVars, failed, ctrlc_request_exit, loopVars, xr_frame_state,
                   openFrames, frames, image_index, imageAcquired, lastEnd, views, lockHeld,
                   swapVars, sessionDropped>>

\* a runtime call of the frame body whose Ok changes nothing else: `.unwrap()` on its result
RuntimeCall(p) ==
    /\ \E ok \in BOOLEAN :
        IF ok
        THEN /\ Log(p)
             /\ pc' = NextInFrame(p)
             /\ UNCHANGED <<failed, lockHeld>>
        ELSE /\ Panic(p)
             /\ UNCHANGED frameLog
    /\ UNCHANGED <<variant, client, ownVars, cmdVars, poseVars, setupVars, countVars, ctrlc_request_exit, loopVars, xr_frame_state,
                   openFrames, frames, image_index, imageAcquired, lastEnd, views,
                   swapVars, sessionDropped>>

\* main.rs:335 / rendering.rs:143: frame_wait.wait().unwrap()
FrameWait ==
    /\ pc = "frame_wait"
    /\ Counting => frames < MaxFrames
    /\ \E ok \in BOOLEAN :
        IF ok
        THEN /\ \E sr \in BOOLEAN :
                  xr_frame_state' = [should_render |-> sr,
                                     predicted_display_time |-> IF Counting THEN frames + 1
                                                                          ELSE 1]
             /\ frames' = Inc(frames)
             /\ nShouldRender' = IF xr_frame_state'.should_render THEN Inc(nShouldRender)
                                                                  ELSE nShouldRender
             /\ Log("frame_wait")
             /\ pc' = NextInFrame(pc)
             /\ UNCHANGED <<failed, lockHeld>>
        ELSE /\ Panic("frame_wait")
             /\ UNCHANGED <<xr_frame_state, frames, frameLog, nShouldRender>>
    /\ UNCHANGED <<variant, client, ownVars, cmdVars, poseVars, setupVars, nSubmits, nFrameEnds, ctrlc_request_exit, loopVars, openFrames, image_index,
                   imageAcquired, lastEnd, views, swapVars, sessionDropped>>

\* main.rs:338-340 / rendering.rs:146-148: frame_stream.begin().unwrap(), then the branch
FrameBegin ==
    /\ pc = "frame_begin"
    /\ \E ok \in BOOLEAN :
        IF ok
        THEN /\ openFrames' = openFrames + 1
             /\ Log("frame_begin")
             /\ pc' = IF SkipRendering(xr_frame_state) THEN "end_empty" ELSE NextInFrame(pc)
             /\ UNCHANGED <<failed, lockHeld>>
        ELSE /\ Panic("frame_begin")
             /\ UNCHANGED <<openFrames, frameLog>>
    /\ UNCHANGED <<variant, client, ownVars, cmdVars, poseVars, setupVars, countVars, ctrlc_request_exit, loopVars, xr_frame_state, frames,
                   image_index, imageAcquired, lastEnd, views, swapVars, sessionDropped>>

\* the skipped frame leaving the iteration without a frame end
SkipFrameNoEnd ==
    /\ pc = "end_empty"
    /\ pc' = "check_ctrlc"
    /\ UNCHANGED <<variant, client, ownVars, cmdVars, poseVars, setupVars, failed, ctrlc_request_exit, loopVars, frameVars, lockHeld,
                   swapVars, sessionDropped>>

\* main.rs:341-348 / rendering.rs:149-157: end(time, blend, &[]).unwrap(); continue / return
SkipFrame ==
    /\ pc = "end_empty"
    /\ \E ok \in BOOLEAN :
        IF ok
        THEN /\ openFrames' = openFrames - 1
             /\ lastEnd' = [predicted_display_time |-> xr_frame_state.predicted_display_time,
                            layers |-> 0, views |-> <<>>]
             /\ nFrameEnds' = Inc(nFrameEnds)
             /\ Log("frame_end")
             /\ pc' = "check_ctrlc"
             /\ UNCHANGED <<failed, lockHeld>>
        ELSE /\ Panic("frame_end")
             /\ UNCHANGED <<openFrames, lastEnd, frameLog, nFrameEnds>>
    /\ UNCHANGED <<variant, client, ownVars, cmdVars, poseVars, setupVars, nShouldRender, nSubmits, ctrlc_request_exit,
                   loopVars, xr_frame_state, frames, image_index, imageAcquired, views,
                   swapVars, sessionDropped>>

\* the guard bound to a local that lives on after the statement
GuardKept == TRUE

\* the MutexGuard of `handle.lock().unwrap().acquire_image()` is a temporary:
\* it is dropped at the end of the statement (main.rs:353 / rendering.rs:162-167)
GuardAfterAcquire == FALSE

\* main.rs:353 / rendering.rs:162-167: lock, acquire_image().unwrap(), guard dropped
AcquireImage ==
    /\ pc = "acquire_image"
    /\ ~lockHeld
    /\ \E ok \in BOOLEAN :
        IF ok
        THEN /\ \E idx \in 0..(numImages - 1) : image_index' = idx
             /\ imageAcquired' = TRUE
             /\ lockHeld' = GuardAfterAcquire
             /\ frameLog' = frameLog \o
                    (IF GuardAfterAcquire THEN <<"lock", "acquire_image">>
                                          ELSE <<"lock", "acquire_image", "unlock">>)
             /\ pc' = NextInFrame(pc)
             /\ UNCHANGED failed
        ELSE /\ Panic("acquire_image")
             /\ UNCHANGED <<image_index, imageAcquired, frameLog>>
    /\ UNCHANGED <<variant, client, ownVars, cmdVars, poseVars, setupVars, countVars, ctrlc_request_exit, loopVars, xr_frame_state, openFrames,
                   frames, lastEnd, views, swapVars, sessionDropped>>

\* rendering.rs:173-174: create_uniform_bind_group (buffer mapped at creation)
CreateUniform ==
    /\ pc = "create_uniform"
    /\ LocalStep("create_uniform")

\* the view of the first texture, whatever the index
ViewForFirst(textures, index) == textures[1]

\* main.rs:356 / rendering.rs:170: &swapchain_textures[image_index as usize]
ViewFor(textures, index) == textures[index + 1]

\* main.rs:385-386 / rendering.rs:175-181: record_command_buffer(.., view, ..)
Record ==
    /\ pc = "record"
    /\ command_buffer' = [target |-> ViewFor(swapchain_textures, image_index).image]
    /\ Log("record")
    /\ pc' = NextInFrame(pc)
    /\ UNCHANGED <<variant, client, ownVars, submitted, poseVars, setupVars, countVars, failed,
                   ctrlc_request_exit, loopVars, xr_frame_state, openFrames, frames,
                   image_index, imageAcquired, lastEnd, views, lockHeld, swapVars,
                   sessionDropped>>

\* main.rs:362-371 / rendering.rs:183-188: read_actions (sync_actions, locate, is_active)
ReadActions ==
    /\ pc = "read_actions"
    /\ RuntimeCall("read_actions")

\* main.rs:378-380 / rendering.rs:195-202: session.locate_views(..).unwrap()
LocateViews ==
    /\ pc = "locate_views"
    /\ \E ok \in BOOLEAN :
        IF ok
        THEN /\ \E located \in LocatedViews : views' = located
             /\ Log("locate_views")
             /\ pc' = NextInFrame(pc)
             /\ UNCHANGED <<failed, lockHeld>>
        ELSE /\ Panic("locate_views")
             /\ UNCHANGED <<frameLog, views>>
    /\ UNCHANGED <<variant, client, ownVars, cmdVars, poseVars, setupVars, countVars, ctrlc_request_exit, loopVars,
                   xr_frame_state, openFrames, frames, image_index, imageAcquired, lastEnd,
                   swapVars, sessionDropped>>

\* main.rs:384 create_uniform_bind_group(device, layout, &views) /
\* rendering.rs:205 write_uniform_buffer: the two view-projection matrices
Upload ==
    /\ pc = "upload"
    /\ LocalStep("upload")

\* main.rs:390 / rendering.rs:209: let guard = handle.lock().unwrap()
Lock ==
    /\ pc = "lock"
    /\ ~lockHeld
    /\ lockHeld' = TRUE
    /\ Log("lock")
    /\ pc' = NextInFrame(pc)
    /\ UNCHANGED <<variant, client, ownVars, cmdVars, poseVars, setupVars, countVars, failed, ctrlc_request_exit, loopVars, xr_frame_state,
                   openFrames, frames, image_index, imageAcquired, lastEnd, views, swapVars,
                   sessionDropped>>

\* the wait made a second time on the image already waited on
WaitImageTwice ==
    /\ pc = "wait_image"
    /\ frameLog' = frameLog \o <<"wait_image", "wait_image">>
    /\ pc' = NextInFrame(pc)
    /\ UNCHANGED <<variant, client, ownVars, cmdVars, poseVars, setupVars, countVars, failed, ctrlc_request_exit, loopVars, xr_frame_state,
                   openFrames, frames, image_index, imageAcquired, lastEnd, views, lockHeld,
                   swapVars, sessionDropped>>

\* main.rs:391-393 / rendering.rs:210: wait_image(INFINITE).unwrap()
WaitImage ==
    /\ pc = "wait_image"
    /\ RuntimeCall("wait_image")

\* main.rs:396 / rendering.rs:213: queue.submit(Some(command_buffer))
Submit ==
    /\ pc = "submit"
    /\ nSubmits' = Inc(nSubmits)
    /\ submitted' = command_buffer
    /\ Log("submit")
    /\ pc' = NextInFrame(pc)
    /\ UNCHANGED <<variant, client, ownVars, command_buffer, poseVars, setupVars, nShouldRender, nFrameEnds, failed,
                   ctrlc_request_exit, loopVars, xr_frame_state, openFrames, frames,
                   image_index, imageAcquired, lastEnd, views, lockHeld, swapVars, sessionDropped>>

\* main.rs:398 / rendering.rs:215: release_image().unwrap()
ReleaseImage ==
    /\ pc = "release_image"
    /\ \E ok \in BOOLEAN :
        IF ok
        THEN /\ imageAcquired' = FALSE
             /\ Log("release_image")
             /\ pc' = NextInFrame(pc)
             /\ UNCHANGED <<failed, lockHeld>>
        ELSE /\ Panic("release_image")
             /\ UNCHANGED <<imageAcquired, frameLog>>
    /\ UNCHANGED <<variant, client, ownVars, cmdVars, poseVars, setupVars, countVars, ctrlc_request_exit, loopVars, xr_frame_state, openFrames,
                   frames, image_index, lastEnd, views, swapVars, sessionDropped>>

\* main.rs:401-407: width of the first and height of the second view configuration;
\* rendering.rs:285-291: width and height of the swapchain descriptor
ImageRect(v) ==
    IF v = "inline"
    THEN [x |-> 0, y |-> 0, width |-> xr_view_configs[1].width,
          height |-> xr_view_configs[2].height]
    ELSE [x |-> 0, y |-> 0, width |-> swapchain_desc.width, height |-> swapchain_desc.height]

\* both projection views built from the first located view
ProjectionViewsOneEye(located, rect) ==
    <<[pose |-> located[1].pose, fov |-> located[1].fov, image_array_index |-> 0,
       image_rect |-> rect],
      [pose |-> located[1].pose, fov |-> located[1].fov, image_array_index |-> 1,
       image_rect |-> rect]>>

\* main.rs:408-427 / rendering.rs:292-311: the two CompositionLayerProjectionView
ProjectionViews(located, rect) ==
    <<[pose |-> located[1].pose, fov |-> located[1].fov, image_array_index |-> 0,
       image_rect |-> rect],
      [pose |-> located[2].pose, fov |-> located[2].fov, image_array_index |-> 1,
       image_rect |-> rect]>>

\* the guard of the second lock stored somewhere that outlives the iteration
GuardOutlivesFrame == lockHeld

\* main.rs:438 / rendering.rs:225: xr_swapchain_locked / xr_swapchain is a local of the
\* loop body / of render_frame; it is dropped when the block ends
GuardAfterFrame == FALSE

\* main.rs:400-438 / rendering.rs:216-225: end(time, blend, &[&layer]).unwrap(); the guard
\* taken before wait_image is dropped at the end of the loop body / of render_frame
FrameEnd ==
    /\ pc = "frame_end"
    /\ \E ok \in BOOLEAN :
        IF ok
        THEN /\ openFrames' = openFrames - 1
             /\ lastEnd' = [predicted_display_time |-> xr_frame_state.predicted_display_time,
                            layers |-> 1,
                            views |-> ProjectionViews(views, ImageRect(variant))]
             /\ frameLog' = frameLog \o
                    (IF lockHeld /\ ~GuardAfterFrame THEN <<"frame_end", "unlock">>
                                                     ELSE <<"frame_end">>)
             /\ nFrameEnds' = Inc(nFrameEnds)
             /\ lockHeld' = GuardAfterFrame
             /\ pc' = NextInFrame(pc)
             /\ UNCHANGED failed
        ELSE /\ Panic("frame_end")
             /\ UNCHANGED <<openFrames, lastEnd, frameLog, nFrameEnds>>
    /\ UNCHANGED <<variant, client, ownVars, cmdVars, poseVars, setupVars, nShouldRender, nSubmits, ctrlc_request_exit,
                   loopVars, xr_frame_state, frames, image_index, imageAcquired, views,
                   swapVars, sessionDropped>>

----------------------------------------------------------------------------
(* Teardown, main.rs:440-466 *)

\* main.rs:442-444: for (texture, _) in swapchain_textures { texture.destroy(); }
\* each tuple is moved out of the Vec and dropped at the end of its iteration
DestroyTextures ==
    /\ pc = "destroy_textures"
    /\ IF Alive # {}
       THEN /\ DropTexture(CHOOSE i \in Alive : \A j \in Alive : i <= j)
            /\ UNCHANGED pc
       ELSE /\ pc' = NextInTeardown(pc)
            /\ UNCHANGED <<swapchain_textures, strongCount, swapchainDestroyed, imageState,
                           strong, destroyed>>
    /\ UNCHANGED <<variant, client, owners, cmdVars, poseVars, setupVars, failed, ctrlc_request_exit, loopVars, frameVars, lockHeld,
                   numImages, xrImages, callerHandle, sessionDropped>>

\* main.rs:447: instance.poll_all(true)
PollAll ==
    /\ pc = "poll_all"
    /\ pc' = NextInTeardown(pc)
    /\ UNCHANGED <<variant, client, ownVars, cmdVars, poseVars, setupVars, failed, ctrlc_request_exit, loopVars, frameVars, lockHeld,
                   swapVars, sessionDropped>>

\* main.rs:455-465: drop((session, frame_wait, frame_stream, stage, ..))
DropSession ==
    /\ pc = "drop_session"
    /\ sessionDropped' = TRUE
    /\ Drops(<<"session", "frame_wait", "frame_stream">>)
    /\ pc' = NextInTeardown(pc)
    /\ UNCHANGED <<variant, client, cmdVars, poseVars, setupVars, failed, ctrlc_request_exit, loopVars, frameVars, lockHeld,
                   swapVars>>

\* main.rs:466: the locals still owned are dropped, xr_swapchain (main.rs:216) among them
Return ==
    /\ pc = "return"
    /\ callerHandle' = FALSE
    /\ DropArc
    /\ pc' = NextInTeardown(pc)
    /\ UNCHANGED <<variant, client, owners, cmdVars, poseVars, setupVars, failed, ctrlc_request_exit, loopVars, frameVars, lockHeld,
                   numImages, xrImages, swapchain_textures, sessionDropped>>

\* main.rs:123-125: drop(debug_utils)
DropDebugUtilsValue ==
    /\ pc = "drop_debug_utils"
    /\ Drops(<<"debug_utils">>)
    /\ pc' = NextInTeardown(pc)
    /\ UNCHANGED <<variant, client, cmdVars, poseVars, setupVars, failed, ctrlc_request_exit, loopVars, frameVars, lockHeld,
                   swapVars, sessionDropped>>

\* main.rs:127-129: drop((xr_entry, xr_instance, xr_system)); xr_system is a plain id
DropXrInstance ==
    /\ pc = "drop_xr_instance"
    /\ Drops(<<"xr_entry", "xr_instance">>)
    /\ pc' = NextInTeardown(pc)
    /\ UNCHANGED <<variant, client, cmdVars, poseVars, setupVars, failed, ctrlc_request_exit, loopVars, frameVars, lockHeld,
                   swapVars, sessionDropped>>

\* main.rs:133: device.destroy(): the device is lost from here on; the handle is still owned
DeviceDestroy ==
    /\ pc = "device_destroy"
    /\ Becomes(Destroy(Res, "device.destroy"))
    /\ pc' = NextInTeardown(pc)
    /\ UNCHANGED <<variant, client, owners, cmdVars, poseVars, setupVars, failed, ctrlc_request_exit, loopVars, frameVars, lockHeld,
                   swapVars, sessionDropped>>

\* main.rs:134: drop((instance, device, queue, render_pipeline))
DropWgpu ==
    /\ pc = "drop_wgpu"
    /\ Drops(<<"instance", "device">>)
    /\ pc' = NextInTeardown(pc)
    /\ UNCHANGED <<variant, client, cmdVars, poseVars, setupVars, failed, ctrlc_request_exit, loopVars, frameVars, lockHeld,
                   swapVars, sessionDropped>>

----------------------------------------------------------------------------
(* Specifications *)

InitCommon ==
    /\ command_buffer = NoCommand
    /\ submitted = NoCommand
    /\ rotation = NoRotation
    /\ nShouldRender = 0
    /\ nSubmits = 0
    /\ nFrameEnds = 0
    /\ setupLog = <<>>
    /\ reqs = NoReqs
    /\ xr_view_configs = <<>>
    /\ failed = "none"
    /\ ctrlc_request_exit = FALSE
    /\ session_running = FALSE
    /\ rtRunning = FALSE
    /\ handled = [event |-> NoEvent, call |-> "none"]
    /\ nPolled = 0
    /\ pending = 0
    /\ lastExit = "none"
    /\ xr_frame_state = NoFrame
    /\ frameLog = <<>>
    /\ openFrames = 0
    /\ frames = 0
    /\ image_index = -1
    /\ imageAcquired = FALSE
    /\ lastEnd = NoEnd
    /\ views = <<>>
    /\ lockHeld = FALSE
    /\ numImages = 0
    /\ xrImages = <<>>
    /\ imageState = <<>>
    /\ swapchain_textures = <<>>
    /\ strongCount = 0
    /\ callerHandle = FALSE
    /\ swapchainDestroyed = FALSE
    /\ sessionDropped = FALSE

\* the example program: session setup, 'main_loop, teardown
Init ==
    /\ client = "example"
    /\ orientation = NoOrientation
    /\ variant \in Variants
    /\ pc = StartupSteps(variant)[1]
    /\ swapchain_desc = NoDesc
    /\ owners = {"xr_entry"}
    /\ strong = AtStart.strong
    /\ destroyed = <<>>
    /\ InitCommon

\* the thread that runs main and run_session
RenderThread ==
    \/ EnumerateExtensions \/ XrCreateInstance \/ MainGraphicsRequirements \/ MainVersionCheck
    \/ GraphicsRequirements \/ VersionCheck \/ CreateVkInstance \/ CreateDevice
    \/ CreateSession \/ EnumerateViews
    \/ CreateXrSwapchain \/ EnumerateImages \/ WrapImage \/ ReturnSwapchain
    \/ CheckCtrlC \/ PollSome \/ PollNone \/ RunningCheck
    \/ FrameWait \/ FrameBegin \/ SkipFrame \/ AcquireImage \/ CreateUniform \/ Record
    \/ ReadActions \/ LocateViews \/ Upload \/ Lock \/ WaitImage \/ Submit
    \/ ReleaseImage \/ FrameEnd
    \/ DestroyTextures \/ PollAll \/ DropSession \/ Return
    \/ DropDebugUtilsValue \/ DropXrInstance \/ DeviceDestroy \/ DropWgpu
    \/ DebugUtilsNew

Next == RenderThread \/ CtrlC

Spec == Init /\ [][Next]_vars

\* The example followed through any number of loop iterations. The render thread is
\* scheduled and every blocking call it makes returns: it always takes its next step.
InitLive ==
    /\ client = "example_uncounted"
    /\ orientation = NoOrientation
    /\ variant \in Variants
    /\ pc = StartupSteps(variant)[1]
    /\ swapchain_desc = NoDesc
    /\ owners = {"xr_entry"}
    /\ strong = AtStart.strong
    /\ destroyed = <<>>
    /\ InitCommon

SpecLive == InitLive /\ [][Next]_vars /\ WF_vars(RenderThread)

\* any caller of indite::create_swapchain
InitSwapchain ==
    /\ client = "caller"
    /\ orientation = NoOrientation
    /\ variant = "inline"
    /\ pc = "create_swapchain"
    /\ swapchain_desc \in [width : 1..MaxExtent, height : 1..MaxExtent,
                           view_count : {VIEW_COUNT}]
    /\ \E debug \in BOOLEAN :
        /\ owners = ConstructedOwners(debug)
        /\ strong = Constructed(debug).strong
    /\ destroyed = <<>>
    /\ InitCommon

NextSwapchain ==
    \/ CreateXrSwapchain \/ EnumerateImages \/ WrapImage \/ ReturnSwapchain
    \/ CallerDropHandle \/ CallerDropTexture

SpecSwapchain == InitSwapchain /\ [][NextSwapchain]_vars

\* the owning values of a constructed session, dropped in any order
InitOwners ==
    /\ client = "owner"
    /\ orientation = NoOrientation
    /\ variant = "inline"
    /\ pc = "owner"
    /\ swapchain_desc = NoDesc
    /\ \E debug \in BOOLEAN :
        /\ owners = ConstructedOwners(debug)
        /\ strong = Constructed(debug).strong
    /\ destroyed = <<>>
    /\ InitCommon

\* drop of any one of the values still owned
OwnerDrops ==
    /\ pc = "owner"
    /\ \E o \in owners : Drops(<<o>>)
    /\ UNCHANGED <<variant, client, cmdVars, poseVars, setupVars, pc, failed, ctrlc_request_exit, loopVars, frameVars,
                   lockHeld, swapVars, sessionDropped>>

NextOwners == OwnerDrops

SpecOwners == InitOwners /\ [][NextOwners]_vars

\* openxr_pose_to_glam applied to any orientation a runtime can hand over
InitPose ==
    /\ client = "pose"
    /\ variant = "inline"
    /\ pc = "pose_input"
    /\ orientation \in Orientations
    /\ swapchain_desc = NoDesc
    /\ owners = {}
    /\ strong = NoStrong
    /\ destroyed = <<>>
    /\ InitCommon

NextPose == ConvertPose

SpecPose == InitPose /\ [][NextPose]_vars

----------------------------------------------------------------------------
(* Properties *)

IsPrefix(s, t) == Len(s) <= Len(t) /\ \A i \in 1..Len(s) : s[i] = t[i]

Count(seq, x) == Cardinality({i \in 1..Len(seq) : seq[i] = x})

\* a frame wait has returned in the current iteration
InFrame == xr_frame_state.predicted_display_time > 0

\* the iteration is over: the thread is back at the top of the loop, log not yet cleared
IterationOver == pc = "check_ctrlc"

\* C1: in an iteration whose frame wait returned should_render = false no image is
\* acquired, no controller or view query is made and nothing is submitted (the only calls
\* are frame wait, frame begin, frame end), and when the iteration is over frame end has
\* been called exactly once, with an empty layer list.
C1_SkippedFrameOnlyEnds ==
    (InFrame /\ ~xr_frame_state.should_render) =>
        /\ IsPrefix(frameLog, <<"frame_wait", "frame_begin", "frame_end">>)
        /\ ~imageAcquired
        /\ image_index = -1
        /\ IterationOver =>
              /\ frameLog = <<"frame_wait", "frame_begin", "frame_end">>
              /\ lastEnd = [predicted_display_time |-> xr_frame_state.predicted_display_time,
                            layers |-> 0, views |-> <<>>]

C1_Witness ==
    /\ IterationOver
    /\ InFrame
    /\ ~xr_frame_state.should_render
    /\ frameLog = <<"frame_wait", "frame_begin", "frame_end">>
    /\ frames = 2

\* positions between a frame begin and the matching frame end
BegunPcs == FramePcs \ {"frame_wait", "frame_begin"}

\* C2: while no runtime call has failed, frame begin and frame end pair 1:1: at most one
\* frame is open, it is open exactly between its begin and its end, no iteration calls
\* begin or end twice, and nothing is open at the next frame wait or once the loop is left.
C2_BeginEndPair ==
    failed = "none" =>
        /\ openFrames \in {0, 1}
        /\ (openFrames = 1) <=> (pc \in BegunPcs)
        /\ Count(frameLog, "frame_begin") <= 1
        /\ Count(frameLog, "frame_end") <= Count(frameLog, "frame_begin")
        /\ IterationOver /\ InFrame =>
              Count(frameLog, "frame_begin") = 1 /\ Count(frameLog, "frame_end") = 1

C2_Witness ==
    /\ IterationOver
    /\ ctrlc_request_exit
    /\ frames = 2
    /\ nPolled >= 2
    /\ Count(frameLog, "frame_end") = 1
    /\ openFrames = 0

ClaimedOrder ==
    <<"frame_wait", "frame_begin", "acquire_image", "read_actions", "locate_views", "upload",
      "wait_image", "submit", "release_image", "frame_end">>

IsOrderedStep(c) == c \in {ClaimedOrder[i] : i \in 1..Len(ClaimedOrder)}

\* C3: in a rendered frame the steps frame wait, frame begin, acquire image, read actions,
\* locate views, upload of the matrices, wait image, submit, release image, frame end
\* happen in exactly this order, each exactly once by the end of the iteration.
C3_RenderedFrameOrder ==
    (InFrame /\ xr_frame_state.should_render) =>
        /\ IsPrefix(SelectSeq(frameLog, IsOrderedStep), ClaimedOrder)
        /\ IterationOver => SelectSeq(frameLog, IsOrderedStep) = ClaimedOrder

C3_Witness ==
    /\ IterationOver
    /\ xr_frame_state.should_render
    /\ variant = "render_frame"
    /\ SelectSeq(frameLog, IsOrderedStep) = ClaimedOrder

\* C4: for every order in which a caller drops the returned handle and the textures, the
\* handle's strong count is the caller's reference plus one per live texture, so it is
\* positive and the swapchain is not destroyed while any texture exists.
C4_AliveWhileTextures ==
    /\ strongCount = (IF callerHandle THEN 1 ELSE 0) + Cardinality(Alive)
    /\ Alive # {} => strongCount > 0 /\ ~swapchainDestroyed

C4_Witness ==
    /\ pc = "caller"
    /\ ~callerHandle
    /\ Alive # {}
    /\ Cardinality(Alive) < numImages
    /\ ~swapchainDestroyed

\* C5: at teardown every texture wrapping a swapchain image is destroyed before the
\* session objects are dropped and before the runtime swapchain is destroyed.
C5_TexturesFirst ==
    (sessionDropped \/ swapchainDestroyed) =>
        Len(swapchain_textures) = numImages /\ AllDestroyed

C5_Witness ==
    /\ pc = "done"
    /\ sessionDropped
    /\ swapchainDestroyed
    /\ numImages >= 2
    /\ AllDestroyed

StateChanged(st) == [type |-> "SessionStateChanged", state |-> st]

\* C6: a session-state-changed event that is handled without a failed call does this:
\* READY calls session begin, sets the running flag and goes on polling; STOPPING calls
\* session end, clears the flag and goes on polling; EXITING and LOSS_PENDING leave the
\* loop; every other state makes no call, keeps the flag and goes on polling.
C6_TransitionTable ==
    [][(pc = "poll" /\ nPolled' = nPolled + 1 /\ pc' # "aborted"
            /\ handled'.event.type = "SessionStateChanged") =>
        CASE handled'.event.state = "READY" ->
                 /\ handled'.call = "begin"
                 /\ session_running' /\ rtRunning'
                 /\ pc' = "poll"
          [] handled'.event.state = "STOPPING" ->
                 /\ handled'.call = "end"
                 /\ ~session_running' /\ ~rtRunning'
                 /\ pc' = "poll"
          [] handled'.event.state \in {"EXITING", "LOSS_PENDING"} ->
                 /\ handled'.call = "none"
                 /\ pc' \in TeardownPcs
          [] OTHER ->
                 /\ handled'.call = "none"
                 /\ session_running' = session_running /\ rtRunning' = rtRunning
                 /\ pc' = "poll"]_vars

C6_Witness ==
    /\ pc = "poll"
    /\ failed = "none"
    /\ handled = [event |-> StateChanged("STOPPING"), call |-> "end"]
    /\ ~session_running
    /\ frames >= 1

\* C7: frame calls are made only while the running flag is set: every position inside
\* the frame body and every logged frame call has session_running = TRUE, and an
\* iteration that finds the flag clear after polling goes back to the top of the loop
\* with no call made.
C7_IdleMakesNoFrameCalls ==
    [][/\ (pc' \in FramePcs \/ frameLog' # <<>>) => session_running'
       /\ (pc = "running_check" /\ pc' # pc /\ ~session_running) =>
              pc' = "check_ctrlc" /\ UNCHANGED <<frameVars, lockHeld>>]_vars

C7_Witness ==
    /\ pc = "check_ctrlc"
    /\ ~session_running
    /\ handled.event = StateChanged("STOPPING")
    /\ frames >= 1
    /\ frameLog = <<>>
    /\ lastExit = "none"

ExitEvents == {StateChanged("EXITING"), StateChanged("LOSS_PENDING"),
               [type |-> "InstanceLossPending", state |-> "-"]}

\* C8: an exit request that succeeds does not end the loop (the thread goes on to poll
\* events), and the loop is left only when an EXITING, LOSS_PENDING or instance-loss event
\* is polled or when request_exit answers that the session is not running.
C8_CooperativeExit ==
    [][/\ (pc = "check_ctrlc" /\ ctrlc_request_exit /\ lastExit' = "ok") => pc' = "poll"
       /\ (pc \in LoopPcs /\ pc' \in TeardownPcs) =>
              \/ pc = "poll" /\ nPolled' = nPolled + 1 /\ handled'.event \in ExitEvents
              \/ pc = "check_ctrlc" /\ ctrlc_request_exit /\ lastExit' = "not_running"]_vars

C8_Witness ==
    /\ pc = "frame_end"
    /\ ctrlc_request_exit
    /\ lastExit = "ok"
    /\ failed = "none"

\* C9: 'session not running' from request_exit leaves the loop for the teardown with no
\* panic; every failed call (another request_exit error, frame wait, frame begin, acquire,
\* wait image, release, locate views, frame end, ..) stops the thread for good.
C9_FailuresAreFatal ==
    /\ lastExit = "not_running" => failed = "none" /\ pc \in TeardownPcs \cup {"done"}
    /\ lastExit = "error" => failed = "request_exit"
    /\ failed # "none" => pc = "aborted"

C9_Witness ==
    /\ pc = "aborted"
    /\ failed = "release_image"
    /\ imageAcquired
    /\ lastExit = "ok"

IsLockStep(c) ==
    c \in {"lock", "unlock", "acquire_image", "wait_image", "submit", "release_image",
           "frame_end"}

HeldPcs == {"wait_image", "submit", "release_image", "frame_end"}

\* C10 as stated: one uninterrupted hold of the swapchain mutex from acquire_image to
\* release_image, i.e. the mutex is locked whenever an image is acquired and not released.
C10_Original == imageAcquired => lockHeld

\* C10 amended: a rendered frame locks the swapchain mutex twice, never nested: the first
\* hold covers acquire_image only, the second covers wait_image, the submission,
\* release_image and frame end without interruption; from the end of the acquire
\* statement to the second lock the mutex is free.
C10_TwoHolds ==
    /\ pc \in HeldPcs => lockHeld
    /\ pc \in LoopPcs \ HeldPcs => ~lockHeld
    /\ (InFrame /\ xr_frame_state.should_render /\ IterationOver) =>
           SelectSeq(frameLog, IsLockStep) =
               <<"lock", "acquire_image", "unlock",
                 "lock", "wait_image", "submit", "release_image", "frame_end", "unlock">>

C10_Witness ==
    /\ pc = "locate_views"
    /\ imageAcquired
    /\ ~lockHeld
    /\ SelectSeq(frameLog, IsLockStep) = <<"lock", "acquire_image", "unlock">>

BetweenFramesPcs == {"check_ctrlc", "poll", "running_check", "frame_wait"}

\* C11: the render thread holds no lock on the swapchain handle whenever it is between
\* frames (top of the loop, polling, idle, about to call frame wait), in the teardown or
\* finished.
C11_UnlockedBetweenFrames ==
    pc \in BetweenFramesPcs \cup TeardownPcs \cup {"done"} => ~lockHeld

C11_Witness ==
    /\ pc = "frame_wait"
    /\ frames >= 1
    /\ nSubmits >= 1
    /\ nFrameEnds >= 1
    /\ ~lockHeld

VersionCheckPcs == {"main_version_check", "version_check"}

\* the version check of this step ran and failed / ran and let the program go on
CheckFailed == pc \in VersionCheckPcs /\ pc' = "aborted" /\ failed' = pc
CheckPassed == pc \in VersionCheckPcs /\ pc' = NextInStartup(pc) /\ failed' = "none"

\* target lies in [min_api_version_supported, max_api_version_supported]
InRange(t, r) ==
    /\ ~VersionLess(t, r.min_api_version_supported)
    /\ ~VersionLess(r.max_api_version_supported, t)

RangeChecked ==
    pc \in VersionCheckPcs /\ pc' # pc =>
        /\ InRange(TargetVersion(pc), reqs) => CheckPassed
        /\ ~InRange(TargetVersion(pc), reqs) => CheckFailed

\* C12 as stated: the version check fails whenever the target version lies outside
\* [min_api_version_supported, max_api_version_supported] and passes whenever it lies
\* inside, for every minimum and maximum the runtime reports.
C12_Original == [][RangeChecked]_vars

MajorChecked ==
    pc \in VersionCheckPcs /\ pc' # pc =>
        LET t == TargetVersion(pc)
            below == VersionLess(t, reqs.min_api_version_supported)
            majorAbove == t.major > reqs.max_api_version_supported.major
        IN  /\ below \/ majorAbove => CheckFailed
            /\ ~(below \/ majorAbove) => CheckPassed
            /\ InRange(t, reqs) => CheckPassed

\* C12 amended: the check fails exactly when the target is below the reported minimum
\* (major.minor.patch) or its major number is above the major number of the reported
\* maximum; every target inside the range passes, and so does a target above the maximum
\* that shares its major number.
C12_MajorOnlyUpperBound == [][MajorChecked]_vars

\* the check of context.rs has passed a target 1.2.0 against a reported maximum 1.1.0
C12_Witness ==
    /\ pc = "create_vk_instance"
    /\ failed = "none"
    /\ reqs.valid
    /\ reqs.max_api_version_supported = Version(1, 1, 0)
    /\ VersionLess(reqs.max_api_version_supported, TargetVersion("version_check"))

InSetupLog(call) == \E i \in 1..Len(setupLog) : setupLog[i] = call

\* the runtime lacks khr_vulkan_enable2, or a version check failed
Unsupported == InSetupLog("print_not_available") \/ failed \in VersionCheckPcs

C14_SubmitAndEndCounts ==
    /\ nSubmits <= nShouldRender
    /\ nFrameEnds <= frames
    /\ pc \in BetweenFramesPcs \cup TeardownPcs \cup {"done"} =>
        /\ nSubmits = nShouldRender
        /\ nFrameEnds = frames

\* two frames, the first rendered and the second not: one submission, two frame ends
C14_Witness ==
    /\ pc = "check_ctrlc"
    /\ frames = 2
    /\ nShouldRender = 1
    /\ ~xr_frame_state.should_render
    /\ nSubmits = 1
    /\ nFrameEnds = 2

\* no image was deallocated by wgpu, and an image is deallocated exactly when the runtime
\* swapchain has been destroyed
ImagesFreedWithSwapchainOnly ==
    \A h \in DOMAIN imageState :
        /\ imageState[h] # "freed_by_wgpu"
        /\ imageState[h] = "freed_by_runtime" <=> swapchainDestroyed

\* a step that drops texture i gives up one reference to the handle and leaves every image
\* as it was, unless that reference was the last and the swapchain went with it
TextureDropOnlyReleases ==
    \A i \in 1..Len(swapchain_textures) :
        swapchain_textures[i].state = "alive" /\ swapchain_textures'[i].state = "destroyed" =>
            /\ strongCount' = strongCount - 1
            /\ \A h \in DOMAIN imageState :
                \/ imageState'[h] = imageState[h]
                \/ strongCount' = 0 /\ swapchainDestroyed' /\ imageState'[h] = "freed_by_runtime"

\* C15: the rendering layer never deallocates a runtime-owned image: dropping a texture
\* only runs its release hook, which gives up one reference to the handle; images are
\* deallocated only when the runtime swapchain is destroyed.
C15_ImagesOwnedByRuntime ==
    []ImagesFreedWithSwapchainOnly /\ [][TextureDropOnlyReleases]_vars

\* every texture of a three-image swapchain was dropped while the caller keeps its
\* handle: all three images are still allocated
C15_Witness ==
    /\ numImages = 3
    /\ Len(swapchain_textures) = 3
    /\ AllDestroyed
    /\ callerHandle
    /\ ~swapchainDestroyed
    /\ \A h \in DOMAIN imageState : imageState[h] = "allocated"

\* the references a caller holds: its handle and one per texture not yet dropped
ReferencesHeld == (IF callerHandle THEN 1 ELSE 0) + Cardinality(Alive)

\* every reference is counted, and the swapchain is destroyed exactly when none is left
NoLeak ==
    pc = "caller" =>
        /\ strongCount = ReferencesHeld
        /\ swapchainDestroyed <=> ReferencesHeld = 0

\* the swapchain is destroyed by the drop of the last reference and by no other step, and
\* nothing is released after that
DestroyedAtLastDrop ==
    /\ swapchainDestroyed' # swapchainDestroyed =>
        ~swapchainDestroyed /\ strongCount = 1 /\ strongCount' = 0
    /\ strongCount = 1 /\ strongCount' = 0 => ~swapchainDestroyed /\ swapchainDestroyed'
    /\ swapchainDestroyed => strongCount = 0 /\ strongCount' = 0 /\ swapchainDestroyed'

\* C16: once the caller's handle and every texture have been dropped, in any order, the
\* runtime swapchain is destroyed; it is destroyed exactly once, by the drop of the last
\* remaining reference, and never before.
C16_DestroyedExactlyOnce == []NoLeak /\ [][DestroyedAtLastDrop]_vars

\* three textures and the handle were dropped: nothing is referenced, the swapchain and
\* its images are gone
C16_Witness ==
    /\ pc = "caller"
    /\ numImages = 3
    /\ AllDestroyed
    /\ ~callerHandle
    /\ strongCount = 0
    /\ swapchainDestroyed
    /\ \A h \in DOMAIN imageState : imageState[h] = "freed_by_runtime"

\* the rectangle at offset (0,0) that covers the whole swapchain image
FullRect == [x |-> 0, y |-> 0, width |-> swapchain_desc.width, height |-> swapchain_desc.height]

\* C17: when the iteration of a rendered frame is over, frame end was called with exactly
\* one projection layer of exactly two views; view i carries the pose and field of view
\* located for eye i in this iteration, refers to array layer i and to the rectangle at
\* offset (0,0) of the full swapchain width and height; the display time passed is the
\* predicted display time of this frame's wait.
C17_ProjectionLayer ==
    (IterationOver /\ InFrame /\ xr_frame_state.should_render) =>
        /\ lastEnd.layers = 1
        /\ Len(lastEnd.views) = VIEW_COUNT
        /\ Len(views) = VIEW_COUNT
        /\ views[1].fov = "left" /\ views[2].fov = "right"
        /\ \A i \in 1..VIEW_COUNT :
            /\ lastEnd.views[i].pose = views[i].pose
            /\ lastEnd.views[i].fov = views[i].fov
            /\ lastEnd.views[i].image_array_index = i - 1
            /\ lastEnd.views[i].image_rect = FullRect
        /\ lastEnd.predicted_display_time = xr_frame_state.predicted_display_time
        /\ lastEnd.predicted_display_time = frames

\* the second frame was rendered with different poses for the two eyes on a swapchain
\* that is wider than high
C17_Witness ==
    /\ IterationOver
    /\ xr_frame_state.should_render
    /\ frames = 2
    /\ lastEnd.layers = 1
    /\ views[1].pose # views[2].pose
    /\ swapchain_desc.width > swapchain_desc.height

\* no event is waiting in the runtime while the thread is in the frame body
DrainedBeforeFrame == pc \in FramePcs \cup {"end_empty"} => pending = 0

\* poll_event has handed out an event in this step
EventStep == pc = "poll" /\ nPolled' = nPolled + 1

EventHandling ==
    /\ EventStep /\ handled'.event.type = "InstanceLossPending" =>
        /\ pc' = TeardownSteps[1]
        /\ handled'.call = "none"
    /\ EventStep /\ handled'.event.type \in {"EventsLost", "Other"} =>
        /\ session_running' = session_running
        /\ rtRunning' = rtRunning
        /\ handled'.call = "none"
        /\ failed' = failed
        /\ pc' = "poll"
    /\ pc = "check_ctrlc" /\ pc' # pc =>
        /\ pc' \in {"poll", "aborted", TeardownSteps[1]}
        /\ ~ctrlc_request_exit => pc' = "poll"
    /\ pc' = "running_check" /\ pc # "running_check" =>
        pc = "poll" /\ pending = 0 /\ pending' = 0
    /\ pc' = FrameSteps(variant)[1] /\ pc # pc' =>
        pc = "running_check" /\ session_running

\* C18: an instance-loss-pending event takes the loop to the teardown; an events-lost
\* event and an unrecognized event change neither the running flag nor the session and
\* the loop polls again; every iteration polls, and it reaches the running test and the
\* frame calls only after poll_event has returned None with no event left waiting.
C18_EventHandling == []DrainedBeforeFrame /\ [][EventHandling]_vars

\* the session runs, an events-lost event was the last of two events handled, and the
\* thread is about to wait for a frame with the queue empty
C18_Witness ==
    /\ pc = "frame_wait"
    /\ session_running
    /\ nPolled = 2
    /\ pending = 0
    /\ handled.event.type = "EventsLost"

\* the rotation has four finite components and length one
IsUnit(r) ==
    /\ \A i \in 1..4 : r.num[i].kind = "finite"
    /\ r.den2 > 0
    /\ r.num[1].v * r.num[1].v + r.num[2].v * r.num[2].v
           + r.num[3].v * r.num[3].v + r.num[4].v * r.num[4].v = r.den2

IsZeroInput == \A i \in 1..4 : orientation[i] = Finite(0)

IsUnitInput ==
    /\ \A i \in 1..4 : orientation[i].kind = "finite"
    /\ Cardinality({i \in 1..4 : orientation[i].v # 0}) = 1
    /\ \A i \in 1..4 : orientation[i].v \in {-1, 0, 1}

OrdinaryInput == \A i \in 1..4 : orientation[i].kind = "finite"

EnumerationOrder ==
    /\ Len(swapchain_textures) <= numImages
    /\ \A k \in 1..Len(swapchain_textures) : swapchain_textures[k].image = xrImages[k]

\* C20: the textures are stored in the runtime's enumeration order, one for each
\* enumerated image, and in every rendered frame the command buffer handed to queue.submit
\* targets the image at the index this frame's acquire returned, whatever index that is.
C20_TargetIsAcquiredImage ==
    /\ EnumerationOrder
    /\ pc \in LoopPcs => Len(swapchain_textures) = numImages
    /\ submitted # NoCommand =>
        /\ image_index \in 0..(numImages - 1)
        /\ submitted.target = xrImages[image_index + 1]
    /\ (IterationOver /\ InFrame /\ xr_frame_state.should_render) => submitted # NoCommand

\* the runtime enumerated three images in descending handle order and the second frame
\* acquired index 2: the submitted command buffer targets the third image of the list
C20_Witness ==
    /\ numImages = 3
    /\ xrImages = <<3, 2, 1>>
    /\ frames = 2
    /\ image_index = 2
    /\ submitted = [target |-> 1]
    /\ pc = "release_image"

\* position of the first call c in the log of this iteration, 0 when there is none
Pos(c) ==
    IF \E i \in 1..Len(frameLog) : frameLog[i] = c
    THEN CHOOSE i \in 1..Len(frameLog) :
            frameLog[i] = c /\ \A j \in 1..(i - 1) : frameLog[j] # c
    ELSE 0

\* when b has happened in this iteration, a happened before it
Precedes(a, b) == Pos(b) > 0 => (Pos(a) > 0 /\ Pos(a) < Pos(b))

\* C21 as stated: in every rendered frame the controller poses are read and the view and
\* projection matrices are computed before the draw commands are recorded, and recording
\* precedes the GPU submission.
C21_Original ==
    (InFrame /\ xr_frame_state.should_render) =>
        /\ Precedes("read_actions", "record")
        /\ Precedes("locate_views", "record")
        /\ Precedes("upload", "record")
        /\ Precedes("record", "submit")

\* C21 amended: in every rendered frame the poses are read, the views located, the
\* matrices written and the draw commands recorded before the GPU submission, and the
\* poses are read before the views are located and the matrices written. The revision
\* inline in run_session records after the matrices are written; render_frame records
\* first and reads the poses and writes the matrices afterwards.
C21_AllBeforeSubmit ==
    (InFrame /\ xr_frame_state.should_render) =>
        /\ Precedes("read_actions", "locate_views")
        /\ Precedes("locate_views", "upload")
        /\ Precedes("upload", "submit")
        /\ Precedes("record", "submit")
        /\ variant = "inline" => Precedes("upload", "record")
        /\ variant = "render_frame" => Precedes("record", "read_actions")
        /\ IterationOver => Pos("record") > 0 /\ Pos("submit") > 0 /\ Pos("read_actions") > 0

\* a frame of render_frame is over: its draw commands were recorded before the poses
\* were read
C21_Witness ==
    /\ IterationOver
    /\ xr_frame_state.should_render
    /\ variant = "render_frame"
    /\ Pos("record") > 0
    /\ Pos("record") < Pos("read_actions")
    /\ Pos("upload") < Pos("submit")

\* the frame loop has been left: teardown, return or abort
Terminated == pc \in TeardownPcs \cup {"done", "aborted"}

\* the last event handled told the loop that the session stops, exits or is being lost
Delivered ==
    /\ handled.event.type = "SessionStateChanged"
    /\ handled.event.state \in {"STOPPING", "EXITING", "LOSS_PENDING"}

\* the assumption of C22 on the runtime: after an exit request it has accepted, it
\* eventually delivers STOPPING, EXITING or LOSS_PENDING
ExitIsDelivered == (pc \in LoopPcs /\ lastExit = "ok") ~> (Delivered \/ Terminated)

\* in an iteration whose exit request the runtime accepted, poll_event hands out a
\* READY state change
RestartStep ==
    /\ pc = "poll"
    /\ lastExit = "ok"
    /\ pending' = pending - 1
    /\ handled'.event = [type |-> "SessionStateChanged", state |-> "READY"]

\* C22 as stated: when every blocking call returns and the runtime eventually delivers
\* STOPPING (or EXITING / LOSS_PENDING) after an exit request it accepted, the loop
\* terminates once the interrupt flag is set.
C22_Original == ExitIsDelivered => (ctrlc_request_exit ~> Terminated)

\* C22 amended: under the same assumptions and when, in addition, the runtime does not
\* for ever make the session READY again in iterations whose exit request it accepted,
\* the loop terminates once the interrupt flag is set.
C22_TerminatesUnlessRestarted ==
    (ExitIsDelivered /\ <>[][~RestartStep]_vars) => (ctrlc_request_exit ~> Terminated)

\* the flag is set, STOPPING has ended the session, and the exit request of the next
\* iteration was answered with `session not running`: the loop has left for the teardown
C22_Witness ==
    /\ client = "example_uncounted"
    /\ ctrlc_request_exit
    /\ handled = [event |-> [type |-> "SessionStateChanged", state |-> "STOPPING"],
                  call |-> "end"]
    /\ lastExit = "not_running"
    /\ pc = TeardownSteps[1]


----------------------------------------------------------------------------
(* Interrupt and frames, main.rs:188-192 and 279-292 *)

\* the loop has been left by a break
LoopLeft == pc \in TeardownPcs \cup {"done"}

\* a step of the handler: it only sets the flag, wherever the render thread is
HandlerStep ==
    (ctrlc_request_exit' # ctrlc_request_exit) =>
        ctrlc_request_exit' /\ UNCHANGED <<pc, failed, loopVars, frameVars, lockHeld, swapVars>>

\* the flag is acted on at the top of the iteration only
ReadAtTop == (lastExit' # lastExit) => pc = "check_ctrlc"

\* a step that leaves the frame body: a panic, or the end of the iteration with the frame
\* ended and the image released; never the teardown
FrameRunsToItsEnd ==
    (pc \in FramePcs /\ pc' \notin FramePcs) =>
        \/ pc' = "aborted"
        \/ /\ pc' = "check_ctrlc"
           /\ openFrames' = 0
           /\ ~imageAcquired'
           /\ Count(frameLog', "frame_end") = 1
           /\ Count(frameLog', "acquire_image") = Count(frameLog', "release_image")

NoExitInsideFrame == LoopLeft => (openFrames = 0 /\ ~imageAcquired)

InterruptAndFrame == HandlerStep /\ ReadAtTop /\ FrameRunsToItsEnd

\* C23: the handler may set the flag at any point and changes nothing else; the flag is
\* acted on only at the top of an iteration, so a frame that has begun runs to its end
\* (image released, frame end called) unless a call panics, and the loop is never left
\* between frame begin and frame end or between acquire and release.
C23_FrameCompletedDespiteInterrupt == []NoExitInsideFrame /\ [][InterruptAndFrame]_vars

\* the flag was set after the top of this iteration, and the rendered frame is at its end
C23_Witness ==
    /\ pc = "frame_end"
    /\ ctrlc_request_exit
    /\ lastExit = "none"
    /\ xr_frame_state.should_render
    /\ Count(frameLog, "release_image") = 1
    /\ ~imageAcquired
    /\ openFrames = 1


\* the flag is only ever set
FlagStaysSet == ctrlc_request_exit => ctrlc_request_exit'

\* the top of an iteration calls request_exit exactly when the flag is set
RequestAtEveryTop ==
    (pc = "check_ctrlc" /\ pc' # pc) =>
        /\ ctrlc_request_exit => lastExit' \in {"ok", "not_running", "error"}
        /\ ~ctrlc_request_exit => lastExit' = "none"
        /\ pc' \in LoopPcs => (lastExit' = "ok") = ctrlc_request_exit

FlagAndRequest == FlagStaysSet /\ RequestAtEveryTop

\* C24: the flag is never cleared once set, and from then on request_exit is called at the
\* top of every iteration until the loop is left: an iteration goes on past its top with
\* the flag set only after a request the runtime accepted.
C24_RequestReissued ==
    [](ctrlc_request_exit /\ pc \in LoopPcs \ {"check_ctrlc"} => lastExit \in {"ok", "none"})
    /\ [][FlagAndRequest]_vars

\* back at the top after an iteration that began with an accepted request and rendered a
\* frame: the request is about to be made again
C24_Witness ==
    /\ pc = "check_ctrlc"
    /\ ctrlc_request_exit
    /\ lastExit = "ok"
    /\ Count(frameLog, "frame_end") = 1
    /\ session_running


----------------------------------------------------------------------------
(* Swapchain image discipline, main.rs:351-398 and rendering.rs:160-224 *)

\* C25: at most one swapchain image is acquired and not released. In an iteration the
\* image is acquired at most once, waited on at most once and released at most once, in
\* that order and before frame end; a rendered frame whose iteration is over has done each
\* exactly once; acquire is never reached with an image still held, and none is held at
\* the top of the loop or after it.
C25_OneImageInFlight ==
    /\ Count(frameLog, "acquire_image") <= 1
    /\ Count(frameLog, "wait_image") <= 1
    /\ Count(frameLog, "release_image") <= 1
    /\ imageAcquired <=>
          (Count(frameLog, "acquire_image") = 1 /\ Count(frameLog, "release_image") = 0)
    /\ Precedes("acquire_image", "wait_image")
    /\ Precedes("wait_image", "release_image")
    /\ Pos("acquire_image") > 0 => Precedes("release_image", "frame_end")
    /\ pc \in {"acquire_image", "check_ctrlc", "poll", "running_check", "frame_wait",
               "frame_begin"} \cup TeardownPcs \cup {"done"} => ~imageAcquired
    /\ (IterationOver /\ InFrame /\ xr_frame_state.should_render) =>
          /\ Count(frameLog, "acquire_image") = 1
          /\ Count(frameLog, "wait_image") = 1
          /\ Count(frameLog, "release_image") = 1
          /\ Pos("release_image") < Pos("frame_end")

\* the second rendered frame of a run is over: its image was acquired, waited on and released
C25_Witness ==
    /\ IterationOver
    /\ frames = 2
    /\ nSubmits = 2
    /\ xr_frame_state.should_render
    /\ Count(frameLog, "acquire_image") = 1
    /\ Count(frameLog, "wait_image") = 1
    /\ Count(frameLog, "release_image") = 1
    /\ ~imageAcquired


----------------------------------------------------------------------------
(* Locking of the swapchain handle, swapchain.rs:63-90 and rendering.rs:162-215 *)

\* the statements that call lock() on the handle
LockingPcs == {"enumerate_images", "acquire_image", "lock"}

IsLockOrUnlock(c) == c \in {"lock", "unlock"}

\* locks and unlocks of an iteration alternate, beginning with a lock
Alternates(seq) ==
    \A k \in 1..Len(seq) : seq[k] = (IF k % 2 = 1 THEN "lock" ELSE "unlock")

NeverRelocked ==
    /\ pc \in LockingPcs => ~lockHeld
    /\ pc \in {"wrap_images", "textures_done"} => lockHeld
    /\ Alternates(SelectSeq(frameLog, IsLockOrUnlock))
    /\ Pos("wait_image") > 0 =>
          SelectSeq(SubSeq(frameLog, 1, Pos("wait_image")), IsLockOrUnlock) =
              <<"lock", "unlock", "lock">>

\* making or dropping a texture only changes the number of references to the handle
HooksLeaveLock ==
    (swapchain_textures' # swapchain_textures) =>
        /\ lockHeld' = lockHeld
        /\ \/ strongCount' = strongCount + 1
           \/ strongCount' = strongCount - 1

\* C26: the render thread never calls lock() on the swapchain handle while it holds the
\* lock: the guard of the acquire statement is dropped before the lock taken for wait,
\* submission and release; and while create_swapchain_textures holds the lock over the
\* enumeration, creating a texture only clones the handle into its release hook (dropping
\* a texture only drops that clone), and neither locks it.
C26_NoNestedLock == []NeverRelocked /\ [][HooksLeaveLock]_vars

\* the enumeration holds the lock and a texture has been created with its hook
C26_Witness ==
    /\ IsExample
    /\ pc = "wrap_images"
    /\ lockHeld
    /\ Len(swapchain_textures) = 2
    /\ strongCount = 3


----------------------------------------------------------------------------
(* Lifetimes, lib.rs:48-53 and debug_utils.rs:13-20, 59-65 *)

Index(seq, x) ==
    IF \E i \in 1..Len(seq) : seq[i] = x THEN CHOOSE i \in 1..Len(seq) : seq[i] = x ELSE 0

\* if b is in the sequence, a is in it earlier
Before(seq, a, b) == Index(seq, b) > 0 => (Index(seq, a) > 0 /\ Index(seq, a) < Index(seq, b))

Is(seq, x) == Index(seq, x) > 0

\* C27: the XR session owns clones of the wgpu instance and device for as long as it
\* exists: while xrDestroySession has not been called the two reference counts are at
\* least one and neither the VkInstance nor the VkDevice has been destroyed, in whatever
\* order the owning values are dropped; both are destroyed only after the session.
C27_GuardOutlivesSession ==
    /\ strong.xr_session > 0 =>
          /\ ~Is(destroyed, "xr_session")
          /\ strong.instance >= 1 /\ strong.device >= 1
          /\ ~Is(destroyed, "vk_instance") /\ ~Is(destroyed, "vk_device")
    /\ Before(destroyed, "xr_session", "vk_instance")
    /\ Before(destroyed, "xr_session", "vk_device")
    /\ \A o \in Objects : strong[o] >= 0

\* the application has dropped its instance and its device; a session handle is left, and
\* with it the guard
C27_Witness ==
    /\ pc = "owner"
    /\ "instance" \notin owners /\ "device" \notin owners
    /\ owners \cap SessionHandles = {"frame_stream"}
    /\ strong.xr_session = 1
    /\ strong.device = 1
    /\ destroyed = <<>>

\* C28: the debug messenger is destroyed before the XR instance, in every order of drops:
\* a DebugUtils value holds its own references to the entry and the instance, so neither
\* is destroyed while it is owned, and its Drop destroys the messenger before it gives
\* those references up.
C28_MessengerBeforeInstance ==
    /\ "debug_utils" \in owners =>
          /\ strong.xr_instance >= 1 /\ strong.xr_entry >= 1
          /\ ~Is(destroyed, "xr_instance") /\ ~Is(destroyed, "xr_entry")
          /\ ~Is(destroyed, "messenger")
    /\ (Is(destroyed, "messenger") /\ Is(destroyed, "xr_instance")) =>
          Index(destroyed, "messenger") < Index(destroyed, "xr_instance")
    /\ (Is(destroyed, "messenger") /\ Is(destroyed, "xr_entry")) =>
          Index(destroyed, "messenger") < Index(destroyed, "xr_entry")

\* the DebugUtils value held the last reference to the instance: its drop destroyed the
\* messenger and then the instance
C28_Witness ==
    /\ pc = "owner"
    /\ Is(destroyed, "messenger")
    /\ Index(destroyed, "xr_instance") = Index(destroyed, "messenger") + 1
    /\ Before(destroyed, "xr_session", "messenger")


----------------------------------------------------------------------------
(* Shutdown, main.rs:440-465 and 123-134 *)

\* the application made the value and has dropped it
Dropped(o, madeBy) == Is(setupLog, madeBy) /\ o \notin owners

AfterPoll == (TeardownPcs \ {"destroy_textures", "poll_all"}) \cup {"done"}

ShutdownOrder ==
    /\ pc \in {"poll_all", "drop_session"} => AllDestroyed
    /\ sessionDropped => AllDestroyed /\ pc \in AfterPoll /\ owners \cap SessionHandles = {}
    /\ Dropped("session", "create_session") => sessionDropped
    /\ Dropped("xr_instance", "xr_create_instance") =>
          sessionDropped /\ "debug_utils" \notin owners /\ "xr_entry" \notin owners
    /\ Is(destroyed, "device.destroy") =>
          /\ sessionDropped
          /\ Dropped("xr_instance", "xr_create_instance")
          /\ Is(destroyed, "xr_session") /\ Is(destroyed, "xr_instance")
    /\ Dropped("instance", "create_vk_instance") => Is(destroyed, "device.destroy")
    /\ Dropped("device", "create_device") => Is(destroyed, "device.destroy")
    /\ Before(destroyed, "xr_session", "xr_instance")
    /\ Before(destroyed, "device.destroy", "vk_device")
    /\ Before(destroyed, "vk_device", "vk_instance")
    /\ pc = "done" =>
          /\ owners = {}
          /\ destroyed \in {<<"xr_session", "xr_instance", "xr_entry", "device.destroy",
                               "vk_device", "vk_instance">>,
                             <<"xr_session", "messenger", "xr_instance", "xr_entry",
                               "device.destroy", "vk_device", "vk_instance">>}

\* the session objects are dropped by the statement that follows poll_all
SessionDropStep ==
    /\ (sessionDropped' /\ ~sessionDropped) => pc = "drop_session"
    /\ (pc' = "drop_session" /\ pc # "drop_session") => pc = "poll_all"
    /\ (pc' = "poll_all" /\ pc # "poll_all") => pc = "destroy_textures"

\* C29: at shutdown the swapchain textures are destroyed and the GPU is polled idle before
\* the session objects are dropped; the session objects and then the application's XR
\* entry and instance are dropped before device.destroy() and before the wgpu instance
\* and device are dropped, so the XR session and the XR instance are destroyed before the
\* GPU device.
C29_ShutdownOrder == []ShutdownOrder /\ [][SessionDropStep]_vars

\* main has returned after a run that rendered a frame and had a debug messenger
C29_Witness ==
    /\ pc = "done"
    /\ nSubmits >= 1
    /\ Is(destroyed, "messenger")
    /\ Is(destroyed, "vk_device")
    /\ swapchainDestroyed


----------------------------------------------------------------------------
(* View configurations and the swapchain, main.rs:200-217 and session.rs:35-52 *)

\* indite::create_swapchain has been called and has made the runtime swapchain
SwapchainExists == strongCount >= 1 \/ swapchainDestroyed

ViewsAnswered == xr_view_configs # <<>>

TwoEqualViews == Len(xr_view_configs) = VIEW_COUNT /\ xr_view_configs[1] = xr_view_configs[2]

\* C30: unless enumerate_view_configuration_views answers exactly two view
\* configurations and the two are equal, the setup panics before create_swapchain is
\* called; whenever a swapchain exists its descriptor has two array layers and the width
\* and the height that both view configurations recommend.
C30_TwoEqualViews ==
    /\ (ViewsAnswered /\ ~TwoEqualViews) =>
          /\ pc = "aborted"
          /\ failed = (IF Len(xr_view_configs) # VIEW_COUNT THEN "assert_view_count"
                                                           ELSE "assert_views_equal")
          /\ swapchain_desc = NoDesc
          /\ ~SwapchainExists /\ swapchain_textures = <<>>
    /\ (IsExample /\ (SwapchainExists \/ pc = "create_swapchain")) =>
          /\ TwoEqualViews
          /\ swapchain_desc.view_count = 2
          /\ \A k \in 1..VIEW_COUNT :
                /\ swapchain_desc.width = xr_view_configs[k].width
                /\ swapchain_desc.height = xr_view_configs[k].height

\* a swapchain made for two equal views that are wider than high
C30_Witness ==
    /\ IsExample
    /\ strongCount >= 1
    /\ Len(swapchain_textures) >= 1
    /\ swapchain_desc.view_count = 2
    /\ swapchain_desc.width = 2 /\ swapchain_desc.height = 1
    /\ xr_view_configs[2].width = 2

====
